---- MODULE Spec2Model ----
(***************************************************************************)
(* The tool-calling orchestration loop of backend/ai_generator.py:         *)
(* AIGenerator.generate_response and AIGenerator._handle_tool_execution,   *)
(* driven by a remote completion endpoint (client.messages.create) and a   *)
(* tool manager (tool_manager.execute_tool), both of which answer          *)
(* nondeterministically: they return a value or raise.                     *)
(*                                                                         *)
(* Python's None/absent-key is modelled as an option: <<>> is None (or an  *)
(* absent key), <<v>> is the value v.                                      *)
(***************************************************************************)
EXTENDS Naturals, Sequences, FiniteSets, TLC

\* ------------------------------------------------------------------ bounds

\* max_tool_rounds is drawn from 0..MaxRoundsBound at construction.
MaxRoundsBound == 2
\* A response carries 0..MaxBlocks content blocks.
MaxBlocks == 2
\* One generator serves at most MaxCalls generate_response calls, one after
\* the other, where the caller makes more than one.
MaxCalls == 2
\* The most calls made on a registry on its own.
MaxOps == 4
\* The most searches the generator makes while answering one RAG query.
MaxSearches == 2
\* The most requests the query endpoint serves, one after the other.
MaxRequests == 2

\* ------------------------------------------------------- program constants

SYSTEM_PROMPT == "You are an AI assistant specialized in course materials"
TEMPERATURE == 0
MAX_TOKENS == 800
MODEL == "test-model"

None == <<>>
Some(v) == <<v>>

\* ------------------------------------------------------------- input sets

Queries == {"What is Python?"}
\* The queries of the calls after the first on the same generator.
FollowUpQueries == {"Tell me more"}
Histories == {None, Some(""), Some("User: hi\nAssistant: hello")}
ToolDef == [name |-> "search_course_content"]
ToolsArgs == {None, Some(<<>>), Some(<<ToolDef>>)}
\* A tool manager is its registry: the names of the tools registered in it.
ToolManager(names) == [tools |-> names]
ToolManagers == {None, Some(ToolManager({"search_course_content"}))}
\* The same with a manager in which no tool is registered.
ToolManagersWithEmpty == ToolManagers \cup {Some(ToolManager({}))}

StopReasons == {"tool_use", "end_turn"}
BlockTypes == {"text", "tool_use"}
ApiErrors == {"API rate limit exceeded"}
ToolErrors == {"Vector store connection failed"}

\* ------------------------------------------------------------------ state

VARIABLES
    max_tool_rounds,   \* self.max_tool_rounds
    base_params,       \* self.base_params
    pc,                \* where generate_response stands
    query,             \* argument: query
    conversation_history, \* argument: conversation_history (option)
    tools,             \* argument: tools (option)
    tool_manager,      \* argument: tool_manager (option)
    api_params,        \* generate_response's api_params (option until built)
    messages,          \* _handle_tool_execution's messages
    current_response,  \* the response in hand (option)
    round_count,       \* _handle_tool_execution's round_count
    tool_results,      \* the tool_results list of the round being executed
    block,             \* index of the content block execute_tool is called for
    result,            \* the returned text (option)
    error,             \* the raised exception's message (option)
    requests,          \* every client.messages.create(**params) call, in order
    answers,           \* what the endpoint answered to each request, in order
    executions,        \* every tool_manager.execute_tool call, in order
    batches,           \* rounds whose tool-execution for-loop ran to its end
    endpoint,          \* the endpoint's kind: "conforming", "one_block", "arbitrary"
    caller,            \* what the caller passes: the histories, tools and tool
                       \* managers it has, and how many calls it makes
    calls,             \* generate_response calls made on this generator so far
    previous,          \* how the call before the one under way ended (option)
    peer,              \* a second generate_response call on the same generator,
                       \* running at the same time as the first: its frame
    registries,        \* the tool registries: each its tools and last sources
    sessions,          \* the session store: each session's exchanges
    rag,               \* the RAG queries under way, each its frame
    http,              \* the query endpoint's request under way: its frame
    events,            \* the calls made on the registries and the session
                       \* store, and what they returned, in order
    deployment         \* how the service is set up and what it is asked

vars == <<max_tool_rounds, base_params, pc, query, conversation_history, tools,
          tool_manager, api_params, messages, current_response, round_count,
          tool_results, block, result, error, requests, answers, executions,
          batches, endpoint, caller, calls, previous, peer, registries,
          sessions, rag, http, events, deployment>>

\* The service around the generator: registries, sessions and requests.
service == <<registries, sessions, rag, http, events, deployment>>

\* ------------------------------------------------------- python semantics

\* bool(x) of an optional str or list: None, "" and [] are falsy.
TruthyStr(opt) == opt # None /\ opt[1] # ""
TruthyList(opt) == opt # None /\ opt[1] # <<>>
\* bool(tool_manager): None is falsy, a manager object is truthy.
TruthyObj(opt) == opt # None

\* Whether string s contains the string sub.
Contains(s, sub) ==
    /\ Len(sub) <= Len(s)
    /\ \E i \in 1..(Len(s) - Len(sub) + 1) : SubSeq(s, i, i + Len(sub) - 1) = sub

\* ---------------------------------------------------- the remote endpoint

\* The n-th response's block at position i: its text or its tool call is
\* tagged with (n, i), so that no two blocks of a run are confused.
TextBlock(n, i) ==
    [type |-> "text", text |-> "text_" \o ToString(n) \o "_" \o ToString(i)]
ToolUseBlock(n, i) ==
    [type |-> "tool_use", id |-> "toolu_" \o ToString(n) \o "_" \o ToString(i),
     name |-> "search_course_content", input |-> "args"]
Block(ty, n, i) == IF ty = "text" THEN TextBlock(n, i) ELSE ToolUseBlock(n, i)

ContentShapes == UNION {[1..k -> BlockTypes] : k \in 0..MaxBlocks}
\* Whether request req offers the model any tool.
OffersTools(req) == req.tools # None /\ req.tools[1] # <<>>
\* A conforming endpoint requests tool calls only of a request that offers
\* tools; an arbitrary one (a stub, a faulty service) answers with any blocks.
\* Either kind may answer with any stop reason and with empty content. A
\* one-block endpoint answers with any block, one at most in a response.
ShapesFor(kind, req) ==
    IF kind = "conforming" /\ ~OffersTools(req)
    THEN {sh \in ContentShapes : \A i \in DOMAIN sh : sh[i] = "text"}
    ELSE IF kind = "one_block"
    THEN {sh \in ContentShapes : Len(sh) <= 1}
    ELSE ContentShapes
\* The responses an endpoint of this kind may give to req, the n-th call.
Responses(kind, n, req) ==
    {[stop_reason |-> sr, content |-> [i \in DOMAIN sh |-> Block(sh[i], n, i)]] :
        sr \in StopReasons, sh \in ShapesFor(kind, req)}

\* What a registered tool returns for a tool call when it does not raise.
ToolOutput(b) == "result_of_" \o b.id

\* ToolManager.execute_tool: the tool is looked up by name.
Registered(tm, name) == name \in tm[1].tools
NotFoundMessage(name) == "Tool '" \o name \o "' not found"
\* What execute_tool returns when it does not raise: the tool's output, or the
\* not-found text for a name that is not registered.
ExecuteTool(tm, b) ==
    IF Registered(tm, b.name) THEN ToolOutput(b) ELSE NotFoundMessage(b.name)

\* ------------------------------------------------- request construction

\* system_content with the suffix added for every history that is not None.
SystemContentIfNotNone(history) ==
    IF history # None
    THEN SYSTEM_PROMPT \o "\n\nPrevious conversation:\n" \o history[1]
    ELSE SYSTEM_PROMPT

\* generate_response: system_content.
SystemContent(history) ==
    IF TruthyStr(history)
    THEN SYSTEM_PROMPT \o "\n\nPrevious conversation:\n" \o history[1]
    ELSE SYSTEM_PROMPT

UserMessage(q) == [role |-> "user", content |-> q]
AssistantMessage(resp) == [role |-> "assistant", content |-> resp.content]
\* The tool-result message with the round's results in reverse order.
ToolResultsMessageReversed(results) ==
    [role |-> "user",
     content |-> [j \in DOMAIN results |-> results[Len(results) + 1 - j]]]
ToolResultsMessage(results) == [role |-> "user", content |-> results]
\* ToolResult that drops the block's correlation id.
ToolResultWithoutId(b, out) ==
    [type |-> "tool_result", tool_use_id |-> "", content |-> out]
\* ToolResult that drops the tool's output.
ToolResultWithoutContent(b, out) ==
    [type |-> "tool_result", tool_use_id |-> b.id, content |-> ""]
\* _handle_tool_execution: the dict appended to tool_results.
ToolResult(b, out) ==
    [type |-> "tool_result", tool_use_id |-> b.id, content |-> out]

\* self.base_params after api_params was built from it, were the new keys
\* written into the shared dict instead of a copy.
BaseParamsAliased(bp, p) == p
\* self.base_params after api_params was built from it: {**self.base_params,
\* ...} makes a new dict, the generator's own is left as it was.
BaseParamsAfter(bp, p) == bp

\* api_params with the tools keys added for every tools that is not None.
InitialParamsToolsIfNotNone(bp, q, history, t) ==
    [model |-> bp.model, temperature |-> bp.temperature,
     max_tokens |-> bp.max_tokens,
     messages |-> <<UserMessage(q)>>,
     system |-> SystemContent(history),
     tools |-> IF t # None THEN Some(t[1]) ELSE None,
     tool_choice |-> IF t # None THEN Some([type |-> "auto"]) ELSE None]

\* generate_response: api_params, with the tools keys added "if tools".
InitialParams(bp, q, history, t) ==
    [model |-> bp.model, temperature |-> bp.temperature,
     max_tokens |-> bp.max_tokens,
     messages |-> <<UserMessage(q)>>,
     system |-> SystemContent(history),
     tools |-> IF TruthyList(t) THEN Some(t[1]) ELSE None,
     tool_choice |-> IF TruthyList(t) THEN Some([type |-> "auto"]) ELSE None]

\* next_params built without the generator's base parameters: the endpoint's
\* defaults apply.
NextParamsWithoutBase(bp, msgs, base) ==
    [model |-> bp.model, temperature |-> 1,
     max_tokens |-> 1024,
     messages |-> msgs,
     system |-> base.system,
     tools |-> Some(IF base.tools # None THEN base.tools[1] ELSE <<>>),
     tool_choice |-> Some([type |-> "auto"])]

\* NextParams with the tools keys left out of the continuation call.
NextParamsWithoutTools(bp, msgs, base) ==
    [model |-> bp.model, temperature |-> bp.temperature,
     max_tokens |-> bp.max_tokens,
     messages |-> msgs,
     system |-> base.system,
     tools |-> None,
     tool_choice |-> None]

\* _handle_tool_execution: next_params; base_params.get("tools", []).
NextParams(bp, msgs, base) ==
    [model |-> bp.model, temperature |-> bp.temperature,
     max_tokens |-> bp.max_tokens,
     messages |-> msgs,
     system |-> base.system,
     tools |-> Some(IF base.tools # None THEN base.tools[1] ELSE <<>>),
     tool_choice |-> Some([type |-> "auto"])]

\* ------------------------------------------------------- raised messages

\* ApiErrorMessage that leaves the endpoint's message out.
ApiErrorMessageWithoutCause(e) == "Anthropic API error"
ApiErrorMessage(e) == "Anthropic API error: " \o e
EmptyContentMessage == "Anthropic API returned empty response content"
\* ToolFailedMessage without the round.
ToolFailedMessageNoRound(r, e) == "Tool execution failed: " \o e
ToolFailedMessage(r, e) ==
    "Tool execution failed in round " \o ToString(r) \o ": " \o e
\* RoundApiErrorMessage re-raising the endpoint's error unwrapped.
RoundApiErrorMessageUnwrapped(r, e) == e
RoundApiErrorMessage(r, e) ==
    "Anthropic API error in round " \o ToString(r) \o ": " \o e
\* RoundEmptyContentMessage naming the round being entered, not the one that failed.
RoundEmptyContentMessageNextRound(r) ==
    "Anthropic API returned empty response content in round " \o ToString(r + 1)
RoundEmptyContentMessage(r) ==
    "Anthropic API returned empty response content in round " \o ToString(r)
\* Reading .text of a tool_use block: the block type has no such attribute.
AttributeErrorMessage == "'ToolUseBlock' object has no attribute 'text'"

\* ------------------------------------------------------------ conditions

\* "not response.content or len(response.content) == 0"
ContentEmpty(resp) == resp.content = <<>>
\* ShouldHandleTools without the "and tool_manager" test.
ShouldHandleToolsAnyManager(resp, tm) == resp.stop_reason = "tool_use"
\* 'response.stop_reason == "tool_use" and tool_manager'
ShouldHandleTools(resp, tm) == resp.stop_reason = "tool_use" /\ TruthyObj(tm)
\* WhileCondition off by one: "<=" for "<".
WhileConditionOffByOne(rc, max) == rc <= max
\* A loop guard that allows twice the budget.
WhileConditionTwiceBudget(rc, max) == rc < 2 * max
\* "while round_count < self.max_tool_rounds"
WhileCondition(rc, max) == rc < max
\* A loop that takes no response for the final answer.
IsFinalNever(resp) == FALSE
\* 'current_response.stop_reason != "tool_use"'
IsFinal(resp) == resp.stop_reason # "tool_use"
\* 'content_block.type == "tool_use"'
IsToolUse(b) == b.type = "tool_use"

\* The for-loop's next tool_use block at index >= from, 0 when there is none.
NextToolUse(content, from) ==
    LET S == {i \in from..Len(content) : IsToolUse(content[i])}
    IN IF S = {} THEN 0 ELSE CHOOSE i \in S : \A j \in S : i <= j

\* ------------------------------------------- the run's state, as a record

\* The call under way: its arguments, its locals and what it was answered.
Here ==
    [pc |-> pc, query |-> query, conversation_history |-> conversation_history,
     tools |-> tools, tool_manager |-> tool_manager, api_params |-> api_params,
     messages |-> messages, current_response |-> current_response,
     round_count |-> round_count, tool_results |-> tool_results,
     block |-> block, result |-> result, error |-> error,
     requests |-> requests, answers |-> answers, executions |-> executions,
     batches |-> batches]

\* A step that reads the message log and the round count of the other call
\* under way, as if they were kept on the generator.
FrameSharedLog(own, other) ==
    [own EXCEPT !.messages = other.messages, !.round_count = other.round_count]

\* A step that reads the tool_results list of the other call under way, as if
\* the list were kept on the generator.
FrameSharedResults(own, other) == [own EXCEPT !.tool_results = other.tool_results]
\* The names a step of a call reads and writes are the call's own locals
\* (api_params, messages, round_count, current_response, tool_results): a
\* call running at the same time on the same generator has locals of its own.
Frame(own, other) == own

Become(s) ==
    /\ pc' = s.pc
    /\ messages' = s.messages
    /\ current_response' = s.current_response
    /\ round_count' = s.round_count
    /\ tool_results' = s.tool_results
    /\ block' = s.block
    /\ result' = s.result
    /\ error' = s.error
    /\ requests' = s.requests
    /\ batches' = s.batches

\* "raise Exception(msg)": the call ends with the exception.
Raised(s, msg) == [s EXCEPT !.pc = "raised", !.error = Some(msg)]

\* Returned reading the last block, content[-1], for the first.
ReturnedLastBlock(s, resp) ==
    IF resp.content[Len(resp.content)].type = "text"
    THEN [s EXCEPT !.pc = "returned",
                   !.result = Some(resp.content[Len(resp.content)].text)]
    ELSE Raised(s, AttributeErrorMessage)

\* "return response.content[0].text"
Returned(s, resp) ==
    IF resp.content[1].type = "text"
    THEN [s EXCEPT !.pc = "returned", !.result = Some(resp.content[1].text)]
    ELSE Raised(s, AttributeErrorMessage)

\* The end of the for-loop that appends the tool-result message even when the
\* round executed no tool.
IssueRoundCallAlwaysAppends(s) ==
    LET msgs == Append(s.messages, ToolResultsMessage(s.tool_results))
    IN [s EXCEPT !.messages = msgs,
                 !.batches = @ + 1,
                 !.block = 0,
                 !.requests = Append(@, NextParams(base_params, msgs, s.api_params[1])),
                 !.pc = "call_round"]

\* The end of the for-loop that appends one tool-result message for each
\* ToolResult of the round.
IssueRoundCallMessagePerResult(s) ==
    LET msgs == s.messages \o
                [j \in DOMAIN s.tool_results |->
                    ToolResultsMessage(<<s.tool_results[j]>>)]
    IN [s EXCEPT !.messages = msgs,
                 !.batches = @ + 1,
                 !.block = 0,
                 !.requests = Append(@, NextParams(base_params, msgs, s.api_params[1])),
                 !.pc = "call_round"]
\* The end of the for-loop that makes the next call without the round's tool
\* results.
IssueRoundCallDropsResults(s) ==
    [s EXCEPT !.batches = @ + 1,
              !.block = 0,
              !.requests = Append(@, NextParams(base_params, s.messages,
                                                s.api_params[1])),
              !.pc = "call_round"]
\* After the round's for-loop: the tool results are appended "if tool_results",
\* next_params is built and the next completion call is made.
IssueRoundCall(s) ==
    LET msgs == IF s.tool_results # <<>>
                THEN Append(s.messages, ToolResultsMessage(s.tool_results))
                ELSE s.messages
    IN [s EXCEPT !.messages = msgs,
                 !.batches = @ + 1,
                 !.block = 0,
                 !.requests = Append(@, NextParams(base_params, msgs, s.api_params[1])),
                 !.pc = "call_round"]

\* The for-loop that stops after the first tool_use block of the response.
ContinueBatchFirstCallOnly(s, from) ==
    LET nb == IF from = 1 THEN NextToolUse(s.current_response[1].content, 1)
              ELSE 0
    IN IF nb = 0 THEN IssueRoundCall(s)
       ELSE [s EXCEPT !.pc = "execute_tool", !.block = nb]
\* The for-loop over current_response.content from index from on: stop at the
\* next tool_use block (execute_tool is called for it), or leave the loop.
ContinueBatch(s, from) ==
    LET nb == NextToolUse(s.current_response[1].content, from)
    IN IF nb = 0 THEN IssueRoundCall(s)
       ELSE [s EXCEPT !.pc = "execute_tool", !.block = nb]

\* The while-loop that starts the log again from the initial messages in every
\* round.
WhileLoopRestartsLog(s) ==
    IF WhileCondition(s.round_count, max_tool_rounds)
    THEN ContinueBatch(
            [s EXCEPT !.round_count = @ + 1,
                      !.messages = Append(s.api_params[1].messages,
                                          AssistantMessage(s.current_response[1])),
                      !.tool_results = <<>>], 1)
    ELSE Returned(s, s.current_response[1])

\* The while-loop from its head, with current_response in hand.
WhileLoop(s) ==
    IF WhileCondition(s.round_count, max_tool_rounds)
    THEN ContinueBatch(
            [s EXCEPT !.round_count = @ + 1,
                      !.messages = Append(@, AssistantMessage(s.current_response[1])),
                      !.tool_results = <<>>], 1)
    ELSE Returned(s, s.current_response[1])

\* _handle_tool_execution(initial_response, base_params, tool_manager), entered.
HandleToolExecution(s, initial_response) ==
    WhileLoop([s EXCEPT !.messages = s.api_params[1].messages,
                        !.current_response = Some(initial_response),
                        !.round_count = 0])

\* generate_response after the initial client.messages.create returned resp.
AfterInitialResponse(s, resp) ==
    IF ContentEmpty(resp)
    THEN Raised(s, EmptyContentMessage)
    ELSE IF ShouldHandleTools(resp, s.tool_manager)
    THEN HandleToolExecution(s, resp)
    ELSE Returned(s, resp)

\* _handle_tool_execution after the round's client.messages.create returned
\* resp.
AfterRoundResponse(s, resp) ==
    LET t == [s EXCEPT !.current_response = Some(resp)]
    IN IF ContentEmpty(resp)
       THEN Raised(t, RoundEmptyContentMessage(s.round_count))
       ELSE IF IsFinal(resp)
       THEN Returned(t, resp)
       ELSE WhileLoop(t)

\* The for-loop after execute_tool returned output for the block in hand.
AfterToolReturns(s, output) ==
    LET b == s.current_response[1].content[s.block]
    IN ContinueBatch([s EXCEPT !.tool_results = Append(@, ToolResult(b, output))],
                     s.block + 1)

\* The for-loop that swallows the tool's exception and goes on to the next
\* block.
AfterToolRaisesSkipsTool(s, e) == ContinueBatch(s, s.block + 1)

\* The for-loop after execute_tool raised e for the block in hand: "raise
\* Exception(f"Tool execution failed in round {round_count}: {str(e)}")".
AfterToolRaises(s, e) == Raised(s, ToolFailedMessage(s.round_count, e))
\* The record of one execute_tool call: the block in hand and its outcome.
Execution(s, raised, output) ==
    LET b == s.current_response[1].content[s.block]
    IN [round |-> s.round_count, id |-> b.id, name |-> b.name,
        input |-> b.input, raised |-> raised, output |-> output]

\* ---------------------------------------------------------------- actions

\* The frame of a call that generate_response has just built the parameters
\* of: the initial completion call is under way.
Started(q, h, t, tm) ==
    LET p == InitialParams(base_params, q, h, t)
    IN [pc |-> "call_initial", query |-> q, conversation_history |-> h,
        tools |-> t, tool_manager |-> tm, api_params |-> Some(p),
        messages |-> <<>>, current_response |-> None, round_count |-> 0,
        tool_results |-> <<>>, block |-> 0, result |-> None, error |-> None,
        requests |-> <<p>>, answers |-> <<>>, executions |-> <<>>,
        batches |-> 0]

\* The frame of a call that was not made.
NotStarted ==
    [pc |-> "init", query |-> "", conversation_history |-> None,
     tools |-> None, tool_manager |-> None, api_params |-> None,
     messages |-> <<>>, current_response |-> None, round_count |-> 0,
     tool_results |-> <<>>, block |-> 0, result |-> None, error |-> None,
     requests |-> <<>>, answers |-> <<>>, executions |-> <<>>, batches |-> 0]

\* The generator after construction, before generate_response is called.
Constructed ==
    /\ max_tool_rounds \in 0..MaxRoundsBound
    /\ base_params = [model |-> MODEL, temperature |-> TEMPERATURE,
                      max_tokens |-> MAX_TOKENS]
    /\ pc = "init"
    /\ query = ""
    /\ conversation_history = None
    /\ tools = None
    /\ tool_manager = None
    /\ api_params = None
    /\ messages = <<>>
    /\ current_response = None
    /\ round_count = 0
    /\ tool_results = <<>>
    /\ block = 0
    /\ result = None
    /\ error = None
    /\ requests = <<>>
    /\ answers = <<>>
    /\ executions = <<>>
    /\ batches = 0
    /\ calls = 0
    /\ previous = None
    /\ peer = NotStarted

\* No service around the generator: the generator is called directly.
NoService ==
    /\ registries = <<>>
    /\ sessions = <<>>
    /\ rag = <<>>
    /\ http = <<>>
    /\ events = <<>>
    /\ deployment = [kind |-> "generator"]
\* The generator on its own, after construction.
Standalone == Constructed /\ NoService

\* A caller that makes one call, with any history, any tools argument and the
\* usual tool manager or none, and no second call at the same time.
AnyCaller ==
    [histories |-> Histories, tools |-> ToolsArgs, managers |-> ToolManagers,
     calls |-> 1, peers |-> 0]
\* A caller that makes one call, without history, offering the tool together
\* with its manager.
ToolCaller ==
    [histories |-> {None}, tools |-> {Some(<<ToolDef>>)},
     managers |-> ToolManagers \ {None}, calls |-> 1, peers |-> 0]

\* The generator against an endpoint that may answer anything.
Init == Standalone /\ endpoint = "arbitrary" /\ caller = AnyCaller

\* What a call that is over leaves behind in its frame: its query, its
\* outcome, its round count and the length of its message log.
Ended ==
    [query |-> query, outcome |-> pc, round_count |-> round_count,
     log_length |-> Len(messages)]

\* generate_response is called, on a new generator or after an earlier call
\* is over: the call has its own locals, the parameters are built and the
\* initial completion call is made. The logs are those of the call under way.
GenerateResponse ==
    /\ pc \in {"init", "returned", "raised"}
    /\ calls < caller.calls
    /\ \E q \in (IF calls = 0 THEN Queries ELSE FollowUpQueries),
          h \in caller.histories, t \in caller.tools, tm \in caller.managers :
        LET p == InitialParams(base_params, q, h, t)
        IN /\ query' = q
           /\ conversation_history' = h
           /\ tools' = t
           /\ tool_manager' = tm
           /\ api_params' = Some(p)
           /\ requests' = <<p>>
           /\ base_params' = BaseParamsAfter(base_params, p)
    /\ pc' = "call_initial"
    /\ calls' = calls + 1
    /\ previous' = IF pc = "init" THEN None ELSE Some(Ended)
    /\ messages' = <<>>
    /\ current_response' = None
    /\ round_count' = 0
    /\ tool_results' = <<>>
    /\ block' = 0
    /\ result' = None
    /\ error' = None
    /\ answers' = <<>>
    /\ executions' = <<>>
    /\ batches' = 0
    /\ UNCHANGED <<service, peer, endpoint, caller, max_tool_rounds>>

\* The initial client.messages.create raises.
InitialCallRaises ==
    /\ pc = "call_initial"
    /\ \E e \in ApiErrors :
        /\ answers' = Append(answers, [raised |-> Some(e)])
        /\ Become(Raised(Frame(Here, peer), ApiErrorMessage(e)))
    /\ UNCHANGED <<service, peer, endpoint, caller, calls, previous, max_tool_rounds,
                   base_params, query, conversation_history,
                   tools, tool_manager, api_params, executions>>

\* The initial client.messages.create returns a response.
InitialCallReturns ==
    /\ pc = "call_initial"
    /\ \E resp \in Responses(endpoint, Len(requests), requests[Len(requests)]) :
        /\ answers' = Append(answers, [raised |-> None, response |-> resp])
        /\ Become(AfterInitialResponse(Frame(Here, peer), resp))
    /\ UNCHANGED <<service, peer, endpoint, caller, calls, previous, max_tool_rounds,
                   base_params, query, conversation_history,
                   tools, tool_manager, api_params, executions>>

\* tool_manager.execute_tool(name, **input) returns for the block in hand.
ExecuteToolReturns ==
    /\ pc = "execute_tool"
    /\ LET output == ExecuteTool(tool_manager, current_response[1].content[block])
       IN /\ executions' = Append(executions, Execution(Here, None, Some(output)))
          /\ Become(AfterToolReturns(Frame(Here, peer), output))
    /\ UNCHANGED <<service, peer, endpoint, caller, calls, previous, max_tool_rounds,
                   base_params, query, conversation_history,
                   tools, tool_manager, api_params, answers>>

\* tool_manager.execute_tool(name, **input) raises for the block in hand: the
\* tool it names is registered and fails.
ExecuteToolRaises ==
    /\ pc = "execute_tool"
    /\ Registered(tool_manager, current_response[1].content[block].name)
    /\ \E e \in ToolErrors :
        /\ executions' = Append(executions, Execution(Here, Some(e), None))
        /\ Become(AfterToolRaises(Frame(Here, peer), e))
    /\ UNCHANGED <<service, peer, endpoint, caller, calls, previous, max_tool_rounds,
                   base_params, query, conversation_history,
                   tools, tool_manager, api_params, answers>>

\* The round's client.messages.create raises.
RoundCallRaises ==
    /\ pc = "call_round"
    /\ \E e \in ApiErrors :
        /\ answers' = Append(answers, [raised |-> Some(e)])
        /\ Become(Raised(Frame(Here, peer), RoundApiErrorMessage(round_count, e)))
    /\ UNCHANGED <<service, peer, endpoint, caller, calls, previous, max_tool_rounds,
                   base_params, query, conversation_history,
                   tools, tool_manager, api_params, executions>>

\* The round's client.messages.create returns a response.
RoundCallReturns ==
    /\ pc = "call_round"
    /\ \E resp \in Responses(endpoint, Len(requests), requests[Len(requests)]) :
        /\ answers' = Append(answers, [raised |-> None, response |-> resp])
        /\ Become(AfterRoundResponse(Frame(Here, peer), resp))
    /\ UNCHANGED <<service, peer, endpoint, caller, calls, previous, max_tool_rounds,
                   base_params, query, conversation_history,
                   tools, tool_manager, api_params, executions>>

Next ==
    \/ GenerateResponse
    \/ InitialCallRaises
    \/ InitialCallReturns
    \/ ExecuteToolReturns
    \/ ExecuteToolRaises
    \/ RoundCallRaises
    \/ RoundCallReturns

Spec == Init /\ [][Next]_vars

\* The same program against a conforming endpoint only.
InitConforming == Standalone /\ endpoint = "conforming" /\ caller = AnyCaller
SpecConforming == InitConforming /\ [][Next]_vars

\* Every completion call and every tool execution under way is answered: it
\* returns or it raises.
Answering ==
    /\ WF_vars(InitialCallRaises \/ InitialCallReturns)
    /\ WF_vars(ExecuteToolReturns \/ ExecuteToolRaises)
    /\ WF_vars(RoundCallRaises \/ RoundCallReturns)
\* The program called with tools and their manager, against an endpoint that
\* may answer anything.
InitTools == Standalone /\ endpoint = "arbitrary" /\ caller = ToolCaller
SpecTools == InitTools /\ [][Next]_vars
\* The same against an endpoint and tools that always answer.
SpecAnswering == InitTools /\ [][Next]_vars /\ Answering

\* The same against a conforming endpoint, with a caller that may also pass a
\* tool manager in which no tool is registered.
InitRegistry ==
    /\ Standalone
    /\ endpoint = "conforming"
    /\ caller = [AnyCaller EXCEPT !.managers = ToolManagersWithEmpty]
SpecRegistry == InitRegistry /\ [][Next]_vars

\* The same against a one-block endpoint, with a caller that makes up to
\* MaxCalls calls on the generator, each after the one before is over.
InitReuse ==
    /\ Standalone
    /\ endpoint = "one_block"
    /\ caller = [AnyCaller EXCEPT !.calls = MaxCalls]
SpecReuse == InitReuse /\ [][Next]_vars

\* ------------------------------------- two calls on one generator at once

\* The first call's variables, and what no step changes.
first == <<pc, query, conversation_history, tools, tool_manager, api_params,
           messages, current_response, round_count, tool_results, block,
           result, error, requests, answers, executions, batches, calls,
           previous>>
fixed == <<max_tool_rounds, endpoint, caller, service>>

\* generate_response is called a second time while the first call may be
\* under way: the second call has locals of its own.
PeerGenerateResponse ==
    /\ peer.pc = "init"
    /\ caller.peers > 0
    /\ \E q \in FollowUpQueries, h \in caller.histories, t \in caller.tools,
          tm \in caller.managers :
        /\ peer' = Started(q, h, t, tm)
        /\ base_params' = BaseParamsAfter(base_params, Started(q, h, t, tm).requests[1])
    /\ UNCHANGED <<first, fixed>>

\* The second call's initial client.messages.create raises.
PeerInitialCallRaises ==
    /\ peer.pc = "call_initial"
    /\ \E e \in ApiErrors :
        peer' = [Raised(Frame(peer, Here), ApiErrorMessage(e))
                    EXCEPT !.answers = Append(peer.answers, [raised |-> Some(e)])]
    /\ UNCHANGED <<first, fixed, base_params>>

\* The second call's initial client.messages.create returns a response.
PeerInitialCallReturns ==
    /\ peer.pc = "call_initial"
    /\ \E resp \in Responses(endpoint, Len(peer.requests),
                             peer.requests[Len(peer.requests)]) :
        peer' = [AfterInitialResponse(Frame(peer, Here), resp)
                    EXCEPT !.answers = Append(peer.answers,
                                    [raised |-> None, response |-> resp])]
    /\ UNCHANGED <<first, fixed, base_params>>

\* execute_tool returns for the block the second call has in hand.
PeerExecuteToolReturns ==
    /\ peer.pc = "execute_tool"
    /\ LET output == ExecuteTool(peer.tool_manager,
                                 peer.current_response[1].content[peer.block])
       IN peer' = [AfterToolReturns(Frame(peer, Here), output)
                    EXCEPT !.executions = Append(peer.executions,
                                    Execution(peer, None, Some(output)))]
    /\ UNCHANGED <<first, fixed, base_params>>

\* execute_tool raises for the block the second call has in hand.
PeerExecuteToolRaises ==
    /\ peer.pc = "execute_tool"
    /\ Registered(peer.tool_manager,
                  peer.current_response[1].content[peer.block].name)
    /\ \E e \in ToolErrors :
        peer' = [AfterToolRaises(Frame(peer, Here), e)
                    EXCEPT !.executions = Append(peer.executions,
                                    Execution(peer, Some(e), None))]
    /\ UNCHANGED <<first, fixed, base_params>>

\* The second call's round client.messages.create raises.
PeerRoundCallRaises ==
    /\ peer.pc = "call_round"
    /\ \E e \in ApiErrors :
        peer' = [Raised(Frame(peer, Here), RoundApiErrorMessage(peer.round_count, e))
                    EXCEPT !.answers = Append(peer.answers, [raised |-> Some(e)])]
    /\ UNCHANGED <<first, fixed, base_params>>

\* The second call's round client.messages.create returns a response.
PeerRoundCallReturns ==
    /\ peer.pc = "call_round"
    /\ \E resp \in Responses(endpoint, Len(peer.requests),
                             peer.requests[Len(peer.requests)]) :
        peer' = [AfterRoundResponse(Frame(peer, Here), resp)
                    EXCEPT !.answers = Append(peer.answers,
                                    [raised |-> None, response |-> resp])]
    /\ UNCHANGED <<first, fixed, base_params>>

\* The steps of the two calls, in any order.
NextConcurrent ==
    \/ GenerateResponse
    \/ InitialCallRaises
    \/ InitialCallReturns
    \/ ExecuteToolReturns
    \/ ExecuteToolRaises
    \/ RoundCallRaises
    \/ RoundCallReturns
    \/ PeerGenerateResponse
    \/ PeerInitialCallRaises
    \/ PeerInitialCallReturns
    \/ PeerExecuteToolReturns
    \/ PeerExecuteToolRaises
    \/ PeerRoundCallRaises
    \/ PeerRoundCallReturns

\* A caller that makes two calls at the same time, each with tools and their
\* manager and with or without history.
ConcurrentCaller ==
    [histories |-> {None, Some("User: hi\nAssistant: hello")},
     tools |-> {Some(<<ToolDef>>)}, managers |-> ToolManagers \ {None},
     calls |-> 1, peers |-> 1]
InitConcurrent ==
    /\ Standalone
    /\ endpoint = "one_block"
    /\ caller = ConcurrentCaller
SpecConcurrent == InitConcurrent /\ [][NextConcurrent]_vars

\* ------------------------------------------------------- the tool registry

\* ------------------------------------------- the same call made a second time

\* generate_response is called a second time with the arguments of the first
\* call, on the same generator (the same max_tool_rounds): the second call
\* has locals of its own.
TwinGenerateResponse ==
    /\ pc # "init"
    /\ peer.pc = "init"
    /\ caller.peers > 0
    /\ peer' = Started(query, conversation_history, tools, tool_manager)
    /\ base_params' = BaseParamsAfter(base_params, peer'.requests[1])
    /\ UNCHANGED <<first, fixed>>

\* The steps of the call and of its twin, in any order.
NextTwin ==
    \/ GenerateResponse
    \/ InitialCallRaises
    \/ InitialCallReturns
    \/ ExecuteToolReturns
    \/ ExecuteToolRaises
    \/ RoundCallRaises
    \/ RoundCallReturns
    \/ TwinGenerateResponse
    \/ PeerInitialCallRaises
    \/ PeerInitialCallReturns
    \/ PeerExecuteToolReturns
    \/ PeerExecuteToolRaises
    \/ PeerRoundCallRaises
    \/ PeerRoundCallReturns

SpecTwin == InitConcurrent /\ [][NextTwin]_vars
\* The generator's variables, which the service's own steps leave alone.
generator == <<first, peer, base_params, max_tool_rounds, endpoint, caller>>

\* The tools: the search tool, which records sources, the outline tool, which
\* records none, and a tool whose definition has no name.
SearchTool == [definition |-> ToolDef, produces_sources |-> TRUE]
OutlineTool ==
    [definition |-> [name |-> "get_course_outline"], produces_sources |-> FALSE]
NamelessTool ==
    [definition |-> [description |-> "Test"], produces_sources |-> FALSE]
Tools == {SearchTool, OutlineTool, NamelessTool}

\* What the retrieval backend finds: documents with their course title, lesson
\* number and lesson link (which may be absent), or a backend error.
McpLesson ==
    [course_title |-> "Introduction to Model Context Protocol",
     lesson_number |-> 2, link |-> Some("https://example.com/mcp/lesson2")]
RagLesson ==
    [course_title |-> "Building RAG Chatbots", lesson_number |-> 1,
     link |-> None]
Found(docs) == [documents |-> docs, error |-> None]
SearchError == [documents |-> <<>>, error |-> Some("Search error: database down")]
Retrievals ==
    {Found(<<>>), Found(<<McpLesson>>), Found(<<McpLesson, RagLesson>>),
     Found(<<RagLesson, McpLesson>>), SearchError}

\* A registry with nothing registered.
NewRegistry == [tools |-> <<>>, last_sources |-> <<>>]

HasName(definition) == "name" \in DOMAIN definition
\* The names under which tools are registered.
RegisteredNames(reg) ==
    {reg.tools[i].definition.name :
        i \in {j \in DOMAIN reg.tools : HasName(reg.tools[j].definition)}}
AlreadyRegistered(reg, tool) ==
    HasName(tool.definition) /\ tool.definition.name \in RegisteredNames(reg)
ToolNamed(reg, name) ==
    reg.tools[CHOOSE i \in DOMAIN reg.tools : reg.tools[i].definition.name = name]
NameRequiredMessage == "Tool must have a 'name' in its definition"
AlreadyRegisteredMessage(name) == "Tool '" \o name \o "' is already registered"

\* register(tool) that registers whatever it is given.
NameCheckSkipped(definition) == None
\* register(tool): the definition must have a name; the error raised if not.
NameCheck(definition) ==
    IF HasName(definition) THEN None ELSE Some(NameRequiredMessage)

\* register(tool) of a tool with a name not yet registered.
RegisterTool(reg, tool) == [reg EXCEPT !.tools = Append(@, tool)]
\* register(tool) of a name already registered, overwriting.
OverwriteTool(reg, tool) ==
    [reg EXCEPT !.tools =
        [i \in DOMAIN @ |->
            IF @[i].definition.name = tool.definition.name THEN tool ELSE @[i]]]

\* get_tool_definitions(): the definitions in registration order.
GetToolDefinitions(reg) == [i \in DOMAIN reg.tools |-> reg.tools[i].definition]

\* The search tool's label of a document and the Source recorded for it.
Label(doc) == doc.course_title \o " - Lesson " \o ToString(doc.lesson_number)
SourceOf(doc) == [text |-> Label(doc), link |-> doc.link]
\* One Source per retrieved document, the last document's first.
SourcesOfReversed(docs) ==
    [i \in DOMAIN docs |-> SourceOf(docs[Len(docs) + 1 - i])]
\* One Source per retrieved document, in the documents' order.
SourcesOf(docs) == [i \in DOMAIN docs |-> SourceOf(docs[i])]
\* The text blob: each snippet under its bracketed label, blank line between.
RECURSIVE FormatResults(_)
FormatResults(docs) ==
    IF docs = <<>> THEN ""
    ELSE "[" \o Label(Head(docs)) \o "]\nsnippet"
         \o (IF Tail(docs) = <<>> THEN "" ELSE "\n\n" \o FormatResults(Tail(docs)))
NoContentMessage == "No relevant content found."

\* What the search tool returns for what the backend found.
SearchText(retrieval) ==
    IF retrieval.error # None THEN retrieval.error[1]
    ELSE IF retrieval.documents = <<>> THEN NoContentMessage
    ELSE FormatResults(retrieval.documents)
\* What the search tool records for what the backend found.
Recorded(retrieval) ==
    IF retrieval.error # None THEN <<>> ELSE SourcesOf(retrieval.documents)

\* execute_tool(name, ...): the text returned.
ExecuteToolText(reg, name, retrieval) ==
    IF name \notin RegisteredNames(reg) THEN NotFoundMessage(name)
    ELSE IF ToolNamed(reg, name).produces_sources THEN SearchText(retrieval)
    ELSE "Course: Introduction to Model Context Protocol"
\* execute_tool that adds this execution's sources to those already kept.
AfterExecuteToolAccumulating(reg, name, retrieval) ==
    IF name \in RegisteredNames(reg) /\ ToolNamed(reg, name).produces_sources
    THEN [reg EXCEPT !.last_sources = @ \o Recorded(retrieval)]
    ELSE reg

\* execute_tool(name, ...): the registry afterwards. A source-producing tool
\* overwrites the last sources with those of this execution.
AfterExecuteTool(reg, name, retrieval) ==
    IF name \in RegisteredNames(reg) /\ ToolNamed(reg, name).produces_sources
    THEN [reg EXCEPT !.last_sources = Recorded(retrieval)]
    ELSE reg

\* reset_sources that forgets the registered tools with the sources.
ResetSourcesAndTools(reg) == [reg EXCEPT !.last_sources = <<>>, !.tools = <<>>]

\* get_last_sources(), and the registry after reset_sources().
GetLastSources(reg) == reg.last_sources
ResetSources(reg) == [reg EXCEPT !.last_sources = <<>>]

\* One call on registry k and its outcome, as the events log keeps it.
RegistryEvent(k, op, arg, raised, returned) ==
    [on |-> k, op |-> op, arg |-> arg, raised |-> raised, returned |-> returned]

\* A registry on its own, on which up to MaxOps calls are made in any order.
RegistryInUse == deployment.kind = "registry" /\ Len(events) < MaxOps

\* register_tool(tool) returns: the tool has a name, which is new or, in a
\* registry that overwrites, already registered.
RegisterToolReturns ==
    /\ RegistryInUse
    /\ \E tool \in Tools :
        /\ NameCheck(tool.definition) = None
        /\ \/ /\ ~AlreadyRegistered(registries[1], tool)
              /\ registries' = [registries EXCEPT ![1] = RegisterTool(@, tool)]
           \/ /\ AlreadyRegistered(registries[1], tool)
              /\ registries' = [registries EXCEPT ![1] = OverwriteTool(@, tool)]
        /\ events' = Append(events,
                RegistryEvent(1, "register_tool", tool, None, None))
    /\ UNCHANGED <<generator, sessions, rag, http, deployment>>

\* register_tool(tool) raises: the definition has no name or, in a registry
\* that refuses duplicates, the name is already registered.
RegisterToolRaises ==
    /\ RegistryInUse
    /\ \E tool \in Tools :
        \/ /\ NameCheck(tool.definition) # None
           /\ events' = Append(events, RegistryEvent(1, "register_tool", tool,
                                    NameCheck(tool.definition), None))
        \/ /\ NameCheck(tool.definition) = None
           /\ AlreadyRegistered(registries[1], tool)
           /\ events' = Append(events, RegistryEvent(1, "register_tool", tool,
                    Some(AlreadyRegisteredMessage(tool.definition.name)), None))
    /\ UNCHANGED <<generator, registries, sessions, rag, http, deployment>>

\* get_tool_definitions() is called.
GetToolDefinitionsCalled ==
    /\ RegistryInUse
    /\ events' = Append(events, RegistryEvent(1, "get_tool_definitions", None,
                            None, Some(GetToolDefinitions(registries[1]))))
    /\ UNCHANGED <<generator, registries, sessions, rag, http, deployment>>

\* execute_tool(name, ...) is called, and the backend finds what it finds.
ExecuteToolCalled ==
    /\ RegistryInUse
    /\ \E name \in {"search_course_content", "get_course_outline"},
          retrieval \in Retrievals :
        /\ (name # "search_course_content" => retrieval = Found(<<>>))
        /\ registries' = [registries EXCEPT
                            ![1] = AfterExecuteTool(@, name, retrieval)]
        /\ events' = Append(events,
                RegistryEvent(1, "execute_tool",
                    [name |-> name, retrieval |-> retrieval], None,
                    Some(ExecuteToolText(registries[1], name, retrieval))))
    /\ UNCHANGED <<generator, sessions, rag, http, deployment>>

\* get_last_sources() is called.
GetLastSourcesCalled ==
    /\ RegistryInUse
    /\ events' = Append(events, RegistryEvent(1, "get_last_sources", None,
                            None, Some(GetLastSources(registries[1]))))
    /\ UNCHANGED <<generator, registries, sessions, rag, http, deployment>>

\* reset_sources() is called.
ResetSourcesCalled ==
    /\ RegistryInUse
    /\ registries' = [registries EXCEPT ![1] = ResetSources(@)]
    /\ events' = Append(events,
            RegistryEvent(1, "reset_sources", None, None, None))
    /\ UNCHANGED <<generator, sessions, rag, http, deployment>>

NextRegistryCalls ==
    \/ RegisterToolReturns
    \/ RegisterToolRaises
    \/ GetToolDefinitionsCalled
    \/ ExecuteToolCalled
    \/ GetLastSourcesCalled
    \/ ResetSourcesCalled

\* A new registry, the generator not in use.
InitRegistryCalls ==
    /\ Constructed
    /\ max_tool_rounds = MaxRoundsBound
    /\ endpoint = "conforming"
    /\ caller = AnyCaller
    /\ registries = <<NewRegistry>>
    /\ sessions = <<>>
    /\ rag = <<>>
    /\ http = <<>>
    /\ events = <<>>
    /\ deployment = [kind |-> "registry"]
SpecRegistryCalls == InitRegistryCalls /\ [][NextRegistryCalls]_vars

\* ----------------------------------------------------------- the RAG query

\* The registry of a RAG system: the search tool and the outline tool.
RagRegistry == RegisterTool(RegisterTool(NewRegistry, SearchTool), OutlineTool)

\* The session store: the exchanges of every session, oldest first.
SessionIds == {"session_1"}
NewSessions == [sid \in SessionIds |-> <<>>]
Exchange(q, a) == [user |-> q, assistant |-> a]
RECURSIVE FormatHistory(_)
FormatHistory(exchanges) ==
    IF exchanges = <<>> THEN ""
    ELSE "User: " \o Head(exchanges).user \o "\nAssistant: "
         \o Head(exchanges).assistant
         \o (IF Tail(exchanges) = <<>> THEN ""
             ELSE "\n" \o FormatHistory(Tail(exchanges)))
\* get_conversation_history(session_id): None for a session without exchanges.
GetConversationHistory(store, sid) ==
    IF store[sid] = <<>> THEN None ELSE Some(FormatHistory(store[sid]))
\* add_exchange(session_id, query, answer)
AddExchange(store, sid, q, a) == [store EXCEPT ![sid] = Append(@, Exchange(q, a))]

\* What the generator answers to a query when it returns.
AnswerTo(q) == "Answer to: " \o q
\* One call a query makes on a collaborator, and what it returned.
Call(op, arg, returned) == [op |-> op, arg |-> arg, returned |-> returned]

\* The registry a request's query works on: the one registry of the RAG
\* system, or the request's own where each conversation is given one.
RegistryOfShared(r, dep) == 1
RegistryOf(r, dep) == IF dep.registries = "own" THEN r ELSE 1

\* The frame of a query not made.
NoQuery ==
    [pc |-> "idle", query |-> "", session_id |-> None, registry |-> 0,
     answer |-> None, sources |-> None, error |-> None, log |-> <<>>]

\* query(query, session_id) up to its generate_response call: the history is
\* read if a session id is given, and generate_response is called with the
\* history, the registry's tool definitions and the registry.
QueryStarted(q, sid, k, store, reg) ==
    LET history == IF sid # None THEN GetConversationHistory(store, sid[1])
                   ELSE None
        read == IF sid # None
                THEN <<Call("get_conversation_history", sid[1], history)>>
                ELSE <<>>
    IN [pc |-> "generating", query |-> q, session_id |-> sid, registry |-> k,
        answer |-> None, sources |-> None, error |-> None,
        log |-> read \o <<Call("generate_response",
                    [conversation_history |-> history,
                     tools |-> GetToolDefinitions(reg), tool_manager |-> k],
                    None)>>]

\* The generator executed a tool through the registry for this query.
AfterToolExecuted(f, retrieval, text) ==
    [f EXCEPT !.log = Append(@, Call("execute_tool",
                    [name |-> "search_course_content", retrieval |-> retrieval],
                    text))]
\* generate_response returned the answer: the sources are read next.
AfterGenerateResponse(f, answer) ==
    [f EXCEPT !.pc = "reading", !.answer = Some(answer),
              !.log = Append(@, Call("generate_response_returned", None, answer))]
\* generate_response raised: query raises the same error.
AfterGenerateResponseRaised(f, e) ==
    [f EXCEPT !.pc = "raised", !.error = Some(e),
              !.log = Append(@, Call("generate_response_raised", None, e))]
\* A query that returns the sources it read without resetting them.
AfterSourcesReadNoReset(f, sources) ==
    [f EXCEPT !.pc = IF f.session_id # None THEN "recording" ELSE "returned",
              !.sources = Some(sources),
              !.log = Append(@, Call("get_last_sources", None, sources))]
\* get_last_sources() returned: the sources are reset next.
AfterSourcesRead(f, sources) ==
    [f EXCEPT !.pc = "resetting", !.sources = Some(sources),
              !.log = Append(@, Call("get_last_sources", None, sources))]
\* A query that records no exchange.
AfterSourcesResetNeverRecords(f) ==
    [f EXCEPT !.pc = "returned",
              !.log = Append(@, Call("reset_sources", None, None))]
\* reset_sources() returned: with a session id the exchange is recorded next,
\* without one query returns.
AfterSourcesReset(f) ==
    [f EXCEPT !.pc = IF f.session_id # None THEN "recording" ELSE "returned",
              !.log = Append(@, Call("reset_sources", None, None))]
\* add_exchange(session_id, query, answer) returned: query returns.
AfterExchangeAdded(f) ==
    [f EXCEPT !.pc = "returned",
              !.log = Append(@, Call("add_exchange",
                    [session_id |-> f.session_id[1], query |-> f.query,
                     answer |-> f.answer[1]], None))]

\* The execute_tool calls a query's generator has made so far.
ToolExecutions(f) == {i \in DOMAIN f.log : f.log[i].op = "execute_tool"}
QueryOver(f) == f.pc \in {"returned", "raised"}

\* query(query, session_id) is called for request r: at once with the other
\* request where requests are served concurrently, after it otherwise.
QueryCalled ==
    /\ deployment.kind = "rag"
    /\ \E r \in DOMAIN rag :
        /\ rag[r].pc = "idle"
        /\ deployment.concurrent \/ \A o \in 1..(r - 1) : QueryOver(rag[o])
        /\ \E q \in (IF r = 1 THEN Queries ELSE FollowUpQueries),
              sid \in deployment.session_ids :
            rag' = [rag EXCEPT ![r] =
                QueryStarted(q, sid, RegistryOf(r, deployment), sessions,
                             registries[RegistryOf(r, deployment)])]
    /\ UNCHANGED <<generator, registries, sessions, http, events, deployment>>

\* The generator, answering request r, executes the search tool through the
\* registry, and the backend finds what it finds.
QueryToolExecuted ==
    /\ deployment.kind = "rag"
    /\ \E r \in DOMAIN rag :
        /\ rag[r].pc = "generating"
        /\ Cardinality(ToolExecutions(rag[r])) < MaxSearches
        /\ \E retrieval \in deployment.retrievals[r] :
            LET k == rag[r].registry
            IN /\ registries' = [registries EXCEPT ![k] =
                    AfterExecuteTool(@, "search_course_content", retrieval)]
               /\ rag' = [rag EXCEPT ![r] = AfterToolExecuted(@, retrieval,
                    ExecuteToolText(registries[k], "search_course_content",
                                    retrieval))]
    /\ UNCHANGED <<generator, sessions, http, events, deployment>>

\* generate_response returns the answer to request r.
QueryGenerateReturns ==
    /\ deployment.kind = "rag"
    /\ \E r \in DOMAIN rag :
        /\ rag[r].pc = "generating"
        /\ rag' = [rag EXCEPT ![r] = AfterGenerateResponse(@, AnswerTo(@.query))]
    /\ UNCHANGED <<generator, registries, sessions, http, events, deployment>>

\* generate_response raises for request r, and query raises: whether the
\* sources are reset on that way out is not known, so either happens.
QueryGenerateRaises ==
    /\ deployment.kind = "rag"
    /\ \E r \in DOMAIN rag, e \in ApiErrors :
        /\ rag[r].pc = "generating"
        /\ rag' = [rag EXCEPT ![r] = AfterGenerateResponseRaised(@, e)]
        /\ \/ UNCHANGED registries
           \/ /\ GetLastSources(registries[rag[r].registry]) # <<>>
              /\ registries' = [registries EXCEPT
                                ![rag[r].registry] = ResetSources(@)]
    /\ UNCHANGED <<generator, sessions, http, events, deployment>>

\* The query for request r reads the registry's last sources.
QuerySourcesRead ==
    /\ deployment.kind = "rag"
    /\ \E r \in DOMAIN rag :
        /\ rag[r].pc = "reading"
        /\ rag' = [rag EXCEPT ![r] =
                AfterSourcesRead(@, GetLastSources(registries[@.registry]))]
    /\ UNCHANGED <<generator, registries, sessions, http, events, deployment>>

\* The query for request r resets the registry's sources.
QuerySourcesReset ==
    /\ deployment.kind = "rag"
    /\ \E r \in DOMAIN rag :
        /\ rag[r].pc = "resetting"
        /\ registries' = [registries EXCEPT ![rag[r].registry] = ResetSources(@)]
        /\ rag' = [rag EXCEPT ![r] = AfterSourcesReset(@)]
    /\ UNCHANGED <<generator, sessions, http, events, deployment>>

\* The query for request r records the exchange in its session and returns.
QueryExchangeAdded ==
    /\ deployment.kind = "rag"
    /\ \E r \in DOMAIN rag :
        /\ rag[r].pc = "recording"
        /\ sessions' = AddExchange(sessions, rag[r].session_id[1],
                                   rag[r].query, rag[r].answer[1])
        /\ rag' = [rag EXCEPT ![r] = AfterExchangeAdded(@)]
    /\ UNCHANGED <<generator, registries, http, events, deployment>>

NextRag ==
    \/ QueryCalled
    \/ QueryToolExecuted
    \/ QueryGenerateReturns
    \/ QueryGenerateRaises
    \/ QuerySourcesRead
    \/ QuerySourcesReset
    \/ QueryExchangeAdded

\* The generator not in use (the RAG system's tests replace it by a stub).
GeneratorAside ==
    /\ Constructed
    /\ max_tool_rounds = MaxRoundsBound
    /\ endpoint = "conforming"
    /\ caller = AnyCaller

\* A RAG system that serves two queries one after the other, with or without
\* a session id, on its one registry.
InitRag ==
    /\ GeneratorAside
    /\ registries = <<RagRegistry>>
    /\ sessions = NewSessions
    /\ rag = <<NoQuery, NoQuery>>
    /\ http = <<>>
    /\ events = <<>>
    /\ deployment =
        [kind |-> "rag", concurrent |-> FALSE, registries |-> "shared",
         session_ids |-> {None} \cup {Some(sid) : sid \in SessionIds},
         retrievals |-> <<{Found(<<>>), Found(<<McpLesson>>),
                           Found(<<RagLesson, McpLesson>>)},
                          {Found(<<>>), Found(<<RagLesson>>)}>>]
SpecRag == InitRag /\ [][NextRag]_vars

\* Two requests served at the same time, with or without a session id: on one
\* shared registry, or each on a registry of its own. The first request's searches
\* find one lesson, the second's the other.
InitRagConcurrent ==
    /\ GeneratorAside
    /\ registries = <<RagRegistry, RagRegistry>>
    /\ sessions = NewSessions
    /\ rag = <<NoQuery, NoQuery>>
    /\ http = <<>>
    /\ events = <<>>
    /\ \E sharing \in {"shared", "own"} :
        deployment =
            [kind |-> "rag", concurrent |-> TRUE, registries |-> sharing,
             session_ids |-> {None} \cup {Some(sid) : sid \in SessionIds},
             retrievals |-> <<{Found(<<McpLesson>>)}, {Found(<<RagLesson>>)}>>]
SpecRagConcurrent == InitRagConcurrent /\ [][NextRag]_vars

\* ------------------------------------------------------ the query endpoint

\* QueryRequest: a query and an optional session id, which may be empty.
QueryRequests ==
    [query : Queries \cup FollowUpQueries,
     session_id : {None, Some(""), Some("test-session-456")}]
\* What create_session returns: an id not handed out before.
CreatedSessionId(n) == "test-session-" \o ToString(122 + n)
\* What the RAG system answers: an answer with sources, where the answer may
\* fail to be a string, or an error.
RagAnswers ==
    [answer : {Some("This is a test response from the RAG system."), None},
     sources : {<<>>, <<SourceOf(McpLesson)>>}]
RagErrors == {"RAG system error"}
SessionErrors == {"Session creation failed"}
ValidationMessage == "1 validation error for QueryResponse"

\* 'if not session_id' that creates a session for every request.
NeedsSessionAlways(session_id) == TRUE
\* 'if not session_id': None and the empty string are falsy.
NeedsSession(session_id) == ~TruthyStr(session_id)

\* An error response that hides what failed.
HttpErrorGeneric(e) ==
    [status_code |-> 500, detail |-> Some("Internal Server Error"), body |-> None]
\* 'raise HTTPException(status_code=500, detail=str(e))'
HttpError(e) == [status_code |-> 500, detail |-> Some(e), body |-> None]
\* 'return QueryResponse(answer=answer, sources=sources, session_id=session_id)'
QueryResponse(answer, sources, session_id) ==
    [status_code |-> 200, detail |-> None,
     body |-> Some([answer |-> answer, sources |-> sources,
                    session_id |-> session_id])]

\* The endpoint between requests.
NoRequest(served, created) ==
    [pc |-> "idle", request |-> None, session_id |-> None,
     create_session_calls |-> 0, created |-> None, passed |-> None, failure |-> None, response |-> None,
     served |-> served, sessions_created |-> created]

\* rag_system.query(request.query, session_id) is called.
QueryPassed(h, session_id) ==
    [h EXCEPT !.pc = "querying", !.session_id = Some(session_id),
              !.passed = Some([query |-> h.request[1].query,
                               session_id |-> session_id])]
\* The except clause: the response is the error translated.
Failed(h, e) ==
    [h EXCEPT !.pc = "responded", !.failure = Some(e), !.response = Some(HttpError(e))]

\* query_documents(request) is called: the session id is taken from the
\* request; without one create_session is called, with one the RAG query.
QueryDocumentsCalled ==
    /\ deployment.kind = "endpoint"
    /\ http.pc \in {"idle", "responded"}
    /\ http.served < MaxRequests
    /\ \E request \in QueryRequests :
        LET h == [NoRequest(http.served + 1, http.sessions_created)
                    EXCEPT !.request = Some(request)]
        IN http' = IF NeedsSession(request.session_id)
                   THEN [h EXCEPT !.pc = "creating_session",
                                  !.create_session_calls = @ + 1]
                   ELSE QueryPassed(h, request.session_id[1])
    /\ UNCHANGED <<generator, registries, sessions, rag, events, deployment>>

\* create_session() returns the new session's id: the RAG query is called.
CreateSessionReturns ==
    /\ deployment.kind = "endpoint"
    /\ http.pc = "creating_session"
    /\ LET id == CreatedSessionId(http.sessions_created + 1)
       IN http' = QueryPassed([http EXCEPT !.created = Some(id),
                                           !.sessions_created = @ + 1], id)
    /\ UNCHANGED <<generator, registries, sessions, rag, events, deployment>>

\* create_session() raises.
CreateSessionRaises ==
    /\ deployment.kind = "endpoint"
    /\ http.pc = "creating_session"
    /\ \E e \in SessionErrors : http' = Failed(http, e)
    /\ UNCHANGED <<generator, registries, sessions, rag, events, deployment>>

\* rag_system.query returns: the response is built, which fails if the answer
\* is not a string.
RagQueryReturns ==
    /\ deployment.kind = "endpoint"
    /\ http.pc = "querying"
    /\ \E a \in RagAnswers :
        http' = IF a.answer = None
                THEN Failed(http, ValidationMessage)
                ELSE [http EXCEPT !.pc = "responded",
                        !.response = Some(QueryResponse(a.answer[1], a.sources,
                                                        http.session_id[1]))]
    /\ UNCHANGED <<generator, registries, sessions, rag, events, deployment>>

\* rag_system.query raises.
RagQueryRaises ==
    /\ deployment.kind = "endpoint"
    /\ http.pc = "querying"
    /\ \E e \in RagErrors : http' = Failed(http, e)
    /\ UNCHANGED <<generator, registries, sessions, rag, events, deployment>>

NextEndpoint ==
    \/ QueryDocumentsCalled
    \/ CreateSessionReturns
    \/ CreateSessionRaises
    \/ RagQueryReturns
    \/ RagQueryRaises

\* The application with a stub RAG system, before the first request.
InitEndpoint ==
    /\ GeneratorAside
    /\ registries = <<>>
    /\ sessions = <<>>
    /\ rag = <<>>
    /\ http = NoRequest(0, 0)
    /\ events = <<>>
    /\ deployment = [kind |-> "endpoint"]
SpecEndpoint == InitEndpoint /\ [][NextEndpoint]_vars

\* ------------------------------------------------------ the claims' terms

Done == pc \in {"returned", "raised"}
IsResponse(a) == a.raised = None
\* The i-th answer is a response with content.
Answered(i) == IsResponse(answers[i]) /\ answers[i].response.content # <<>>
LastResponse == answers[Len(answers)].response
HasText(content) == \E i \in DOMAIN content : content[i].type = "text"
\* The text of the first text block of content.
FirstText(content) ==
    LET S == {i \in DOMAIN content : content[i].type = "text"}
    IN content[CHOOSE i \in S : \A j \in S : i <= j].text
StartsWith(str, prefix) ==
    Len(prefix) <= Len(str) /\ SubSeq(str, 1, Len(prefix)) = prefix
\* Every answer so far is a response with content that signals tool_use.
AllSignalToolUse ==
    \A i \in DOMAIN answers :
        Answered(i) /\ answers[i].response.stop_reason = "tool_use"
NoExecutionRaised == \A j \in DOMAIN executions : executions[j].raised = None
ToolUseIds(content) ==
    {content[i].id : i \in {k \in DOMAIN content : content[k].type = "tool_use"}}

\* -------------------------------------------------------------------- C1

\* C1: whatever the endpoint answers, a run makes at most 1 + max_tool_rounds
\* completion calls: at most max_tool_rounds after the initial one.
C1_RoundBudget == Len(requests) <= 1 + max_tool_rounds

\* The budget is used up by a model that signals tool_use on every response.
C1_Witness ==
    /\ pc = "returned"
    /\ max_tool_rounds = MaxRoundsBound
    /\ max_tool_rounds >= 2
    /\ Len(requests) = 1 + max_tool_rounds
    /\ AllSignalToolUse

\* -------------------------------------------------------------------- C2

\* C2: with a tool manager, when the initial response and every one of the
\* max_tool_rounds continuation responses signal tool_use and no call fails,
\* generate_response returns (does not raise) the text of the first block of
\* the last response, after exactly max_tool_rounds continuation calls and
\* max_tool_rounds tool batches, and the last response's tool calls are never
\* executed.
C2_BudgetExhaustedReturnsText ==
    (/\ Done
     /\ tool_manager # None
     /\ max_tool_rounds >= 1
     /\ Len(answers) = 1 + max_tool_rounds
     /\ AllSignalToolUse
     /\ NoExecutionRaised)
    => (/\ pc = "returned"
        /\ LastResponse.content[1].type = "text"
        /\ result = Some(LastResponse.content[1].text)
        /\ Len(requests) = 1 + max_tool_rounds
        /\ batches = max_tool_rounds
        /\ \A j \in DOMAIN executions :
              executions[j].id \notin ToolUseIds(LastResponse.content))

\* What holds of the code: the same when the last response begins with a text
\* block; when it begins with a tool_use block, reading its .text raises.
BudgetExhaustedOutcome ==
    (/\ Done
     /\ tool_manager # None
     /\ max_tool_rounds >= 1
     /\ Len(answers) = 1 + max_tool_rounds
     /\ AllSignalToolUse
     /\ NoExecutionRaised)
    => (/\ Len(requests) = 1 + max_tool_rounds
        /\ batches = max_tool_rounds
        /\ \A j \in DOMAIN executions :
              executions[j].id \notin ToolUseIds(LastResponse.content)
        /\ IF LastResponse.content[1].type = "text"
           THEN pc = "returned" /\ result = Some(LastResponse.content[1].text)
           ELSE pc = "raised" /\ error = Some(AttributeErrorMessage))

\* -------------------------------------------------------------------- C3

\* C3: when the first response that does not signal tool_use is the
\* continuation response of round k, generate_response has made exactly k
\* continuation calls and run exactly k tool batches, and it returns the first
\* text block of that response.
C3_FinalAnswerOnRoundK ==
    (/\ Done
     /\ Len(answers) >= 2
     /\ \A i \in DOMAIN answers : Answered(i)
     /\ LastResponse.stop_reason # "tool_use"
     /\ HasText(LastResponse.content))
    => (/\ Len(requests) = Len(answers)
        /\ batches = Len(answers) - 1
        /\ round_count = Len(answers) - 1
        /\ pc = "returned"
        /\ result = Some(FirstText(LastResponse.content)))

\* What holds of the code: the counts, and the text when the response begins
\* with a text block.
FinalAnswerOutcome ==
    (/\ Done
     /\ Len(answers) >= 2
     /\ \A i \in DOMAIN answers : Answered(i)
     /\ LastResponse.stop_reason # "tool_use")
    => (/\ Len(requests) = Len(answers)
        /\ batches = Len(answers) - 1
        /\ round_count = Len(answers) - 1
        /\ IF LastResponse.content[1].type = "text"
           THEN pc = "returned" /\ result = Some(LastResponse.content[1].text)
           ELSE pc = "raised" /\ error = Some(AttributeErrorMessage))

\* -------------------------------------------------------------------- C4

\* C4: with no tool definitions and no tool manager, one completion call is
\* made, no tool is executed, and the first text block of the response is
\* returned unchanged, whatever the response's stop reason.
C4_NoToolsSingleCall ==
    (pc # "init" /\ ~TruthyList(tools) /\ tool_manager = None)
    => (/\ Len(requests) = 1
        /\ executions = <<>>
        /\ batches = 0
        /\ (Len(answers) = 1 /\ Answered(1))
              => (/\ pc = "returned"
                  /\ result = Some(FirstText(answers[1].response.content))))

\* A run without tools whose single response signals tool_use has returned.
C4_Witness ==
    /\ pc = "returned"
    /\ tools = None
    /\ tool_manager = None
    /\ Len(answers) = 1
    /\ answers[1].response.stop_reason = "tool_use"
    /\ Len(answers[1].response.content) >= 2
    /\ result = Some(answers[1].response.content[1].text)

\* -------------------------------------------------------------------- C5

\* C5: when tool definitions were offered on the initial call, every
\* continuation call carries exactly those definitions as its tools, together
\* with tool_choice auto.
C5_ToolsReoffered ==
    TruthyList(tools)
    => \A i \in 2..Len(requests) :
          /\ requests[i].tools = Some(tools[1])
          /\ requests[i].tools = requests[1].tools
          /\ requests[i].tool_choice = Some([type |-> "auto"])

\* Two continuation calls have been made in a run that offered tools.
C5_Witness == TruthyList(tools) /\ Len(requests) >= 3

\* -------------------------------------------------------------------- C6

\* C6: when execute_tool raises in the batch of round r (the batch after the
\* r-th response), generate_response raises an error whose message names
\* round r and contains the tool's message; no text is returned, and no
\* completion call and no tool execution follows (the call is not retried).
C6_ToolFailureAborts ==
    \A j \in DOMAIN executions :
        executions[j].raised # None
        => (/\ j = Len(executions)
            /\ pc = "raised"
            /\ result = None
            /\ error # None
            /\ Contains(error[1], "in round " \o ToString(Len(answers)) \o ":")
            /\ Contains(error[1], executions[j].raised[1])
            /\ Len(requests) = Len(answers)
            /\ ~ENABLED Next)

\* A tool raised in the second round, after an execution that returned.
C6_Witness ==
    /\ Len(executions) >= 2
    /\ executions[Len(executions)].raised # None
    /\ Len(answers) = 2

\* -------------------------------------------------------------------- C7

C8_EmptyContentFatal ==
    \A i \in DOMAIN answers :
        (IsResponse(answers[i]) /\ answers[i].response.content = <<>>)
        => (/\ i = Len(answers)
            /\ Len(requests) = Len(answers)
            /\ pc = "raised"
            /\ result = None
            /\ error # None
            /\ StartsWith(error[1], "Anthropic API returned empty response content")
            /\ (i >= 2 => Contains(error[1], "in round " \o ToString(i - 1)))
            /\ (i >= 2 => ~Contains(error[1], "in round " \o ToString(i)))
            /\ round_count = i - 1
            /\ batches = i - 1
            /\ \A j \in DOMAIN executions : executions[j].round < i)

\* The continuation response of round 2 is empty and signals tool_use.
C8_Witness ==
    /\ Len(answers) = 3
    /\ IsResponse(answers[3])
    /\ answers[3].response.content = <<>>
    /\ answers[3].response.stop_reason = "tool_use"

\* -------------------------------------------------------------------- C9

\* C9: when the initial response signals tool_use and no tool manager was
\* given, no tool is executed, no continuation call is made, and the text of
\* the response's first text block is returned, also when the first block of
\* the response is a tool call.
C9_NoManagerReturnsFirstText ==
    (/\ Done
     /\ tool_manager = None
     /\ Len(answers) >= 1
     /\ Answered(1)
     /\ answers[1].response.stop_reason = "tool_use"
     /\ HasText(answers[1].response.content))
    => (/\ Len(requests) = 1
        /\ executions = <<>>
        /\ pc = "returned"
        /\ result = Some(FirstText(answers[1].response.content)))

\* What holds of the code: nothing is executed and no second call is made;
\* the text is returned only when the first block is a text block.
NoManagerOutcome ==
    (/\ Done
     /\ tool_manager = None
     /\ Len(answers) >= 1
     /\ Answered(1))
    => (/\ Len(requests) = 1
        /\ executions = <<>>
        /\ IF answers[1].response.content[1].type = "text"
           THEN pc = "returned"
                /\ result = Some(answers[1].response.content[1].text)
           ELSE pc = "raised" /\ error = Some(AttributeErrorMessage))

\* ------------------------------------------------------------------- C10

\* C10: in a call where the tool definitions are absent, or the tool manager
\* is absent, no tool is ever executed, whatever the endpoint returns.
C10_NoExecutionWithoutBoth ==
    (pc # "init" /\ (~TruthyList(tools) \/ tool_manager = None))
    => executions = <<>>

\* C10, amended: in a call where the tool manager is absent no tool is ever
\* executed, whatever stop reason and content blocks the endpoint returns.
\* Absent tool definitions do not prevent execution: only the stop reason and
\* the tool manager are tested.
C10_NoExecutionWithoutManager ==
    (pc # "init" /\ tool_manager = None)
    => (executions = <<>> /\ pc # "execute_tool" /\ batches = 0)

\* A run without a tool manager, with tools offered, has ended on a tool_use
\* response that carries a tool call.
C10_Witness ==
    /\ Done
    /\ tool_manager = None
    /\ TruthyList(tools)
    /\ Len(answers) = 1
    /\ Answered(1)
    /\ answers[1].response.stop_reason = "tool_use"
    /\ ToolUseIds(answers[1].response.content) # {}

\* ------------------------------------------------------------------- C11

\* The tool-call blocks of a content list, in their order.
ToolCalls(content) == SelectSeq(content, IsToolUse)
\* The messages after the first are assistant messages and tool-result
\* messages; the latter carry the role "user".
IsAssistant(m) == m.role = "assistant"
IsToolResults(msgs, k) == k > 1 /\ msgs[k].role = "user"
\* The message at k answers the assistant message before it: one ToolResult
\* per tool-call block of that message, in order, with the block's id.
AnswersPrevious(msgs, k) ==
    /\ IsAssistant(msgs[k - 1])
    /\ LET issued == ToolCalls(msgs[k - 1].content)
           results == msgs[k].content
       IN /\ Len(results) = Len(issued)
          /\ \A j \in DOMAIN results :
                /\ results[j].type = "tool_result"
                /\ results[j].tool_use_id = issued[j].id

\* C11: in the message log of every continuation call, each tool-result
\* message holds exactly one ToolResult per tool-call block of the assistant
\* message immediately before it, with that block's id and no other id, and
\* every assistant message with tool-call blocks is followed by such a message.
C11_ResultsMatchPrecedingCalls ==
    \A i \in 2..Len(requests) :
        LET msgs == requests[i].messages
        IN \A k \in 2..Len(msgs) :
            /\ IsToolResults(msgs, k) => AnswersPrevious(msgs, k)
            /\ (IsAssistant(msgs[k]) /\ ToolCalls(msgs[k].content) # <<>>)
                  => (k < Len(msgs) /\ IsToolResults(msgs, k + 1))

\* A second-round continuation call whose log holds the results of a batch of
\* two tool calls and those of a later batch.
C11_Witness ==
    /\ Len(requests) >= 3
    /\ LET msgs == requests[3].messages
       IN /\ Len(msgs) = 5
          /\ Len(msgs[3].content) = 2
          /\ msgs[3].content[1].tool_use_id # msgs[3].content[2].tool_use_id
          /\ Len(msgs[5].content) >= 1

\* ------------------------------------------------------------------- C12

\* C12 as stated: the log of every continuation call is the user query followed
\* by pairs of one assistant message and one tool-result message, and ends
\* with a tool-result message.
C12_StrictAlternation ==
    \A i \in 2..Len(requests) :
        LET msgs == requests[i].messages
        IN /\ msgs[1] = UserMessage(query)
           /\ Len(msgs) = 1 + 2 * (i - 1)
           /\ \A k \in 2..Len(msgs) :
                IF k % 2 = 0 THEN IsAssistant(msgs[k]) ELSE IsToolResults(msgs, k)

\* C12, amended: the log of the continuation call of round r is the user query
\* followed by one group per round 1..r, each an assistant message followed by
\* one tool-result message exactly when that assistant message holds a
\* tool-call block. A tool-result message always follows an assistant message;
\* an assistant message with no tool-call block has no tool-result message
\* after it, so it ends the log or has the next assistant message after it.
C12_GroupedPerRound ==
    \A i \in 2..Len(requests) :
        LET msgs == requests[i].messages
            A == {k \in 2..Len(msgs) : IsAssistant(msgs[k])}
        IN /\ msgs[1] = UserMessage(query)
           /\ IsAssistant(msgs[2])
           /\ Cardinality(A) = i - 1
           /\ \A k \in 2..Len(msgs) :
                IsAssistant(msgs[k]) \/ IsToolResults(msgs, k)
           /\ \A k \in A :
                IF ToolCalls(msgs[k].content) # <<>>
                THEN k < Len(msgs) /\ IsToolResults(msgs, k + 1)
                ELSE k = Len(msgs) \/ IsAssistant(msgs[k + 1])
           /\ \A k \in 3..Len(msgs) :
                IsToolResults(msgs, k) =>
                    /\ IsAssistant(msgs[k - 1])
                    /\ msgs[k].content # <<>>

\* A second-round log in which a round without tool calls is followed by a
\* round with one: two assistant messages are adjacent.
C12_Witness ==
    /\ Len(requests) >= 3
    /\ LET msgs == requests[3].messages
       IN /\ Len(msgs) = 4
          /\ IsAssistant(msgs[2])
          /\ IsAssistant(msgs[3])
          /\ IsToolResults(msgs, 4)

\* ------------------------------------------------------------------- C13

\* a is a proper prefix of b.
IsProperPrefix(a, b) == Len(a) < Len(b) /\ SubSeq(b, 1, Len(a)) = a

\* C13: within one run the message log only grows at its end: the log sent on
\* each completion call extends the log of the call before it, which it keeps
\* unchanged as a prefix, and its first message is the user query.
C13_AppendOnly ==
    \A i \in DOMAIN requests :
        /\ requests[i].messages[1] = UserMessage(query)
        /\ i > 1 => IsProperPrefix(requests[i - 1].messages, requests[i].messages)

\* Three calls of one run, the last with the results of two rounds in its log.
C13_Witness ==
    /\ Len(requests) = 3
    /\ Len(requests[1].messages) = 1
    /\ Len(requests[2].messages) = 3
    /\ Len(requests[3].messages) = 5

\* ------------------------------------------------------------------- C14

\* The execution named a tool that the manager in use has not registered.
NamesUnknownTool(x) == x.name \notin tool_manager[1].tools
\* The text the registry gives for a name it does not know.
NotFoundText(x) == "Tool '" \o x.name \o "' not found"
\* The tool-result message of round r as the round's continuation call sent it.
RoundResults(r) ==
    LET msgs == requests[r + 1].messages IN msgs[Len(msgs)].content

\* C14: a tool call naming a tool that is not registered does not abort the
\* run: execute_tool returns "Tool '<name>' not found" and does not raise, the
\* round's batch runs on to its end, the continuation call of the round is
\* issued, and the ToolResult for that call in its log has that text as content.
C14_UnknownToolIsReported ==
    \A j \in DOMAIN executions :
        LET x == executions[j]
        IN NamesUnknownTool(x) =>
            /\ x.raised = None
            /\ x.output = Some(NotFoundText(x))
            /\ \A e \in ToolErrors : error # Some(ToolFailedMessage(x.round, e))
            /\ \/ pc = "execute_tool" /\ round_count = x.round
               \/ /\ batches >= x.round
                  /\ Len(requests) >= x.round + 1
                  /\ \E k \in DOMAIN RoundResults(x.round) :
                        RoundResults(x.round)[k] =
                            [type |-> "tool_result", tool_use_id |-> x.id,
                             content |-> NotFoundText(x)]

\* A run that went on to its answer after two calls of an unknown tool in the
\* first round.
C14_Witness ==
    /\ pc = "returned"
    /\ Len(executions) >= 2
    /\ NamesUnknownTool(executions[1])
    /\ NamesUnknownTool(executions[2])
    /\ executions[2].round = 1
    /\ Len(requests) >= 2
    /\ RoundResults(1)[2].content = "Tool 'search_course_content' not found"

\* ------------------------------------------------------------------- C15

\* The state of the spec's state machine that a control point belongs to.
\* While a completion call is out the run is AWAITING_COMPLETION; between the
\* tool executions of a round it is EXECUTING_TOOLS.
MachineState(at) ==
    CASE at = "init" -> "INIT"
      [] at \in {"call_initial", "call_round"} -> "AWAITING_COMPLETION"
      [] at = "execute_tool" -> "EXECUTING_TOOLS"
      [] at = "returned" -> "DONE"
      [] at = "raised" -> "FAILED"

\* The step enters a round of the loop: the response just received signals
\* tool_use, a tool manager is present and the round budget is not used up.
EntersRoundGuarded ==
    /\ round_count' = round_count + 1
    /\ round_count < max_tool_rounds
    /\ tool_manager # None
    /\ Len(answers') = Len(answers) + 1
    /\ IsResponse(answers'[Len(answers')])
    /\ answers'[Len(answers')].response.stop_reason = "tool_use"

\* One step of a run, as a path through the state machine. A response whose
\* round has no tool call to execute takes the run through EXECUTING_TOOLS to
\* the next completion call within the step.
MachineStep ==
    LET from == MachineState(pc)
        to == MachineState(pc')
    IN \/ from = "INIT" /\ to = "AWAITING_COMPLETION"
       \/ from = "AWAITING_COMPLETION" /\ to = "DONE"
            /\ round_count' = round_count
       \/ from = "AWAITING_COMPLETION" /\ to = "EXECUTING_TOOLS"
            /\ EntersRoundGuarded
       \/ from = "AWAITING_COMPLETION" /\ to = "AWAITING_COMPLETION"
            /\ EntersRoundGuarded
            /\ batches' = batches + 1
            /\ executions' = executions
            /\ Len(requests') = Len(requests) + 1
       \/ from = "EXECUTING_TOOLS" /\ to = "EXECUTING_TOOLS"
            /\ round_count' = round_count
            /\ requests' = requests
       \/ from = "EXECUTING_TOOLS" /\ to = "AWAITING_COMPLETION"
            /\ round_count' = round_count
            /\ Len(requests') = Len(requests) + 1
       \/ from \in {"INIT", "AWAITING_COMPLETION", "EXECUTING_TOOLS"}
            /\ to = "FAILED"

\* C15: a run moves only along INIT -> AWAITING_COMPLETION, AWAITING_COMPLETION
\* -> DONE, AWAITING_COMPLETION -> EXECUTING_TOOLS (only after a tool_use
\* response, with a tool manager and round budget left), EXECUTING_TOOLS ->
\* AWAITING_COMPLETION, and non-terminal -> FAILED; from DONE and FAILED nothing
\* moves: no completion call and no tool execution follows.
C15_Transitions == [][MachineStep]_vars

\* A run that went through every state but FAILED, twice round the loop.
C15_Witness ==
    /\ pc = "returned"
    /\ round_count = 2
    /\ Len(requests) = 3
    /\ Len(executions) >= 2

\* ------------------------------------------------------------------- C16

\* C16: when every completion call and every tool execution is answered, a
\* generate_response call that has begun comes to its end, returned or
\* raised, having made at most 1 + max_tool_rounds completion calls, also
\* when every response signals tool_use.
C16_Terminates ==
    [](pc # "init" => <>(Done /\ Len(requests) <= 1 + max_tool_rounds))

\* A run that came to its end although every response signalled tool_use.
C16_Witness ==
    /\ Done
    /\ max_tool_rounds = MaxRoundsBound
    /\ Len(answers) = 1 + max_tool_rounds
    /\ AllSignalToolUse
    /\ Len(executions) >= max_tool_rounds

\* ------------------------------------------------------------------- C17

\* The call under way was given a history that is neither None nor "".
HasHistory == conversation_history # None /\ conversation_history[1] # ""
\* The system context the claim describes for the call under way.
DescribedSystem ==
    IF HasHistory
    THEN SYSTEM_PROMPT \o "\n\nPrevious conversation:\n" \o conversation_history[1]
    ELSE SYSTEM_PROMPT
\* The strings a content block carries.
BlockStrings(b) ==
    CASE b.type = "text" -> {b.text}
      [] b.type = "tool_use" -> {b.id, b.name, b.input}
      [] b.type = "tool_result" -> {b.tool_use_id, b.content}
\* The strings a message carries: the query, or those of its content blocks.
MessageStrings(msgs, k) ==
    IF k = 1 THEN {msgs[k].content}
    ELSE UNION {BlockStrings(msgs[k].content[j]) : j \in DOMAIN msgs[k].content}

\* C17: every completion call of a run carries the same system context: the
\* preamble alone when the history is None or "", the preamble followed by
\* "\n\nPrevious conversation:\n" and the history otherwise. The message log
\* of the initial call is exactly one user message with the query, and the
\* history occurs in no message of any call's log.
C17_SystemContextFixed ==
    /\ \A i \in DOMAIN requests :
        /\ requests[i].system = DescribedSystem
        /\ requests[i].system = requests[1].system
        /\ HasHistory =>
              \A k \in DOMAIN requests[i].messages :
                  \A str \in MessageStrings(requests[i].messages, k) :
                      ~Contains(str, conversation_history[1])
    /\ requests # <<>> =>
          requests[1].messages = <<[role |-> "user", content |-> query]>>

\* Three calls of a run that was given a history.
C17_Witness ==
    /\ HasHistory
    /\ Len(requests) = 3
    /\ requests[3].system # SYSTEM_PROMPT
    /\ Len(requests[3].messages) = 5

\* Two calls of a run that was given the empty history.
C17_WitnessEmptyHistory ==
    /\ conversation_history = Some("")
    /\ Len(requests) >= 2
    /\ requests[2].system = SYSTEM_PROMPT

\* ------------------------------------------------------------------- C18

\* C18: every completion call, the initial one and each continuation, carries
\* the model id the generator was constructed with, temperature 0 and
\* max_tokens 800.
C18_FixedCallParameters ==
    \A i \in DOMAIN requests :
        /\ requests[i].model = MODEL
        /\ requests[i].temperature = 0
        /\ requests[i].max_tokens = 800

\* The initial call and two continuation calls have been made.
C18_Witness ==
    /\ Len(requests) = 3
    /\ requests[3].max_tokens = 800
    /\ Len(answers) = 3

\* ------------------------------------------------------------------- C19

\* Tool definitions were offered to the call under way: a non-empty list.
ToolsOffered == tools # None /\ tools[1] # <<>>

\* C19: the initial completion call carries the offered tools and tool_choice
\* auto when tool definitions were offered, a non-empty list; otherwise, for
\* None and for the empty list, it has neither a tools nor a tool_choice key.
C19_ToolsKeysIffOffered ==
    requests # <<>> =>
        IF ToolsOffered
        THEN /\ requests[1].tools = Some(tools[1])
             /\ requests[1].tool_choice = Some([type |-> "auto"])
        ELSE /\ requests[1].tools = None
             /\ requests[1].tool_choice = None

\* An initial call made with an empty list of tool definitions.
C19_Witness ==
    /\ requests # <<>>
    /\ tools = Some(<<>>)
    /\ requests[1].tool_choice = None

\* An initial call made with a tool definition.
C19_WitnessOffered ==
    /\ requests # <<>>
    /\ ToolsOffered
    /\ requests[1].tools = Some(<<ToolDef>>)

\* ------------------------------------------------------------------- C20

\* The step is the beginning of a generate_response call.
CallBegins == calls' = calls + 1
\* The step enters the first round of the call under way.
FirstRoundBegins == calls' = calls /\ round_count = 0 /\ round_count' = 1

\* C20: no step of any call, returning or raising, changes the generator's
\* base parameters (model id, temperature, max_tokens) or max_tool_rounds;
\* and whatever round count and message log the call before left, a call
\* begins with a log holding only its own query and counts its rounds from
\* 0: its first round is round 1 and that round's log is its own query
\* followed by its own first response.
C20_NoSideEffects ==
    [][/\ base_params' = base_params
       /\ max_tool_rounds' = max_tool_rounds
       /\ base_params.model = MODEL
       /\ CallBegins =>
            /\ Len(requests') = 1
            /\ requests'[1].messages = <<[role |-> "user", content |-> query']>>
            /\ requests'[1].model = MODEL
            /\ requests'[1].temperature = 0
            /\ requests'[1].max_tokens = 800
       /\ FirstRoundBegins =>
            /\ Len(answers') = 1
            /\ SubSeq(messages', 1, 2) =
                  <<[role |-> "user", content |-> query],
                    [role |-> "assistant",
                     content |-> answers'[1].response.content]>>
            /\ \A k \in 3..Len(messages') : k = 3 /\ IsToolResults(messages', k)
       /\ (calls' = calls /\ round_count' # round_count) =>
            round_count' = round_count + 1
      ]_vars

\* The second call on a generator, in its first round with a log of its own
\* query, its response and its tool results, after a first call that used two
\* rounds and left a log of five messages.
C20_Witness ==
    /\ calls = 2
    /\ previous # None
    /\ previous[1].round_count = 2
    /\ previous[1].log_length = 5
    /\ previous[1].query # query
    /\ round_count = 1
    /\ Len(requests) = 2
    /\ Len(requests[2].messages) = 3
    /\ requests[2].messages[1].content = query

\* The second call on a generator after a first call that raised.
C20_WitnessAfterFailure ==
    /\ calls = 2
    /\ previous # None
    /\ previous[1].outcome = "raised"
    /\ pc = "returned"

\* ---------------------------------------------------------------- C21

\* A call over what it was answered, on its own: the step after one answer
\* of the endpoint, and the step after one outcome of execute_tool.
AfterAnswer(s, a) ==
    IF s.pc = "call_initial"
    THEN IF a.raised # None
         THEN Raised(s, ApiErrorMessage(a.raised[1]))
         ELSE AfterInitialResponse(s, a.response)
    ELSE IF a.raised # None
         THEN Raised(s, RoundApiErrorMessage(s.round_count, a.raised[1]))
         ELSE AfterRoundResponse(s, a.response)
AfterExecution(s, x) ==
    IF x.raised # None
    THEN AfterToolRaises(s, x.raised[1])
    ELSE AfterToolReturns(s, x.output[1])

\* The call s continued alone, with nothing else running, over the endpoint
\* answers ans and the execute_tool outcomes exs, each taken in order.
RECURSIVE Replay(_, _, _)
Replay(s, ans, exs) ==
    IF s.pc \in {"call_initial", "call_round"} /\ ans # <<>>
    THEN Replay(AfterAnswer(s, Head(ans)), Tail(ans), exs)
    ELSE IF s.pc = "execute_tool" /\ exs # <<>>
    THEN Replay(AfterExecution(s, Head(exs)), ans, Tail(exs))
    ELSE s

\* The call r, had it been executed alone with the arguments, the endpoint
\* responses and the tool results that r had.
Alone(r) ==
    Replay(Started(r.query, r.conversation_history, r.tools, r.tool_manager),
           r.answers, r.executions)

\* What a call shows: where it stands, its message log, its round count, its
\* completion requests, and the text it returned or the error it raised.
Observed(r) ==
    [pc |-> r.pc, messages |-> r.messages, round_count |-> r.round_count,
     requests |-> r.requests, result |-> r.result, error |-> r.error]

Registers(i, name) ==
    /\ events[i].op = "register_tool"
    /\ events[i].raised = None
    /\ HasName(events[i].arg.definition)
    /\ events[i].arg.definition.name = name
\* Whether the i-th call executed a source-producing tool: a tool registered
\* before it under the name called, whose latest registration produces sources.
ExecutesSourceProducer(i) ==
    /\ events[i].op = "execute_tool"
    /\ \E j \in 1..(i - 1) :
        /\ Registers(j, events[i].arg.name)
        /\ events[j].arg.produces_sources
        /\ \A k \in (j + 1)..(i - 1) : ~Registers(k, events[i].arg.name)
\* The calls that set the last-sources slot.
SlotWrites ==
    {i \in DOMAIN events :
        events[i].op = "reset_sources" \/ ExecutesSourceProducer(i)}
LastSlotWrite == CHOOSE i \in SlotWrites : \A j \in SlotWrites : j <= i

\* C23: after any sequence of registry operations get_last_sources returns
\* the sources recorded by the most recent execution of a source-producing
\* tool since the last reset, and nothing else: nothing when there was no such
\* execution, never the sources of an earlier execution joined to them.
C23_OnlyMostRecentExecution ==
    deployment.kind = "registry" =>
        GetLastSources(registries[1]) =
            IF SlotWrites = {} \/ events[LastSlotWrite].op = "reset_sources"
            THEN <<>>
            ELSE Recorded(events[LastSlotWrite].arg.retrieval)

\* Two searches one after the other, each finding documents: the slot holds
\* the second search's sources, which are not those of the first.
C23_Witness ==
    /\ deployment.kind = "registry"
    /\ \E i \in DOMAIN events :
        /\ i + 1 = Len(events)
        /\ ExecutesSourceProducer(i) /\ ExecutesSourceProducer(i + 1)
        /\ events[i].arg.retrieval = Found(<<McpLesson>>)
        /\ events[i + 1].arg.retrieval = Found(<<RagLesson, McpLesson>>)
    /\ GetLastSources(registries[1]) = SourcesOf(<<RagLesson, McpLesson>>)

\* ---------------------------------------------------------------- C24

\* C24: whatever was executed before, reset_sources followed by
\* get_last_sources yields an empty sequence; reset_sources called twice
\* leaves the state that one call leaves; and it changes neither the
\* registered tools nor their definitions.
C24_ResetClearsOnlySources ==
    deployment.kind = "registry" =>
        LET reg == registries[1]
        IN /\ GetLastSources(ResetSources(reg)) = <<>>
           /\ ResetSources(ResetSources(reg)) = ResetSources(reg)
           /\ ResetSources(reg).tools = reg.tools
           /\ GetToolDefinitions(ResetSources(reg)) = GetToolDefinitions(reg)
           /\ \A i \in DOMAIN events :
                (/\ i > 1
                 /\ events[i].op = "get_last_sources"
                 /\ events[i - 1].op = "reset_sources")
                => events[i].returned = Some(<<>>)

\* A search that recorded sources, then reset_sources, then get_last_sources:
\* the tool is still registered.
C24_Witness ==
    /\ deployment.kind = "registry"
    /\ \E i \in DOMAIN events :
        /\ i + 2 = Len(events)
        /\ ExecutesSourceProducer(i)
        /\ Recorded(events[i].arg.retrieval) # <<>>
        /\ events[i + 1].op = "reset_sources"
        /\ events[i + 2].op = "get_last_sources"
    /\ RegisteredNames(registries[1]) = {"search_course_content"}

\* ---------------------------------------------------------------- C25

\* Whether the latest call was a search through the registry that the backend
\* answered without error, made directly after a reset_sources.
SearchedAfterReset ==
    /\ Len(events) >= 2
    /\ events[Len(events) - 1].op = "reset_sources"
    /\ ExecutesSourceProducer(Len(events))
    /\ events[Len(events)].arg.retrieval.error = None

\* C25: after a reset, a successful search execution through the registry
\* leaves in the last-sources slot exactly one Source per retrieved document,
\* in the documents' order, each with the document's course and lesson label
\* as display text and the document's lesson link.
C25_OneSourcePerDocument ==
    (deployment.kind = "registry" /\ SearchedAfterReset) =>
        LET docs == events[Len(events)].arg.retrieval.documents
            sources == GetLastSources(registries[1])
        IN /\ Len(sources) = Len(docs)
           /\ \A i \in DOMAIN docs :
                /\ sources[i].text = docs[i].course_title \o " - Lesson "
                                        \o ToString(docs[i].lesson_number)
                /\ sources[i].link = docs[i].link

\* A search after a reset that retrieved two documents of different courses.
C25_Witness ==
    /\ deployment.kind = "registry"
    /\ SearchedAfterReset
    /\ events[Len(events)].arg.retrieval = Found(<<RagLesson, McpLesson>>)
    /\ Len(GetLastSources(registries[1])) = 2
    /\ GetLastSources(registries[1])[2].text =
            "Introduction to Model Context Protocol - Lesson 2"

\* ---------------------------------------------------------------- C26

\* A step in which register is called with a tool whose definition has no
\* name.
RegistersNameless ==
    /\ Len(events') = Len(events) + 1
    /\ events'[Len(events')].op = "register_tool"
    /\ ~HasName(events'[Len(events')].arg.definition)

\* C26: register(tool) of a tool whose definition lacks a name fails with the
\* configuration error, and the registry is as before the call: the same
\* registered tools, the same get_tool_definitions.
C26_NamelessToolIsRefused ==
    [][(deployment.kind = "registry" /\ RegistersNameless) =>
            /\ events'[Len(events')].raised = Some(NameRequiredMessage)
            /\ registries'[1].tools = registries[1].tools
            /\ GetToolDefinitions(registries'[1]) = GetToolDefinitions(registries[1])
            /\ registries' = registries]_vars

\* register was called with the nameless tool on a registry that holds two
\* tools, and raised.
C26_Witness ==
    /\ deployment.kind = "registry"
    /\ events # <<>>
    /\ events[Len(events)].op = "register_tool"
    /\ events[Len(events)].arg = NamelessTool
    /\ events[Len(events)].raised = Some(NameRequiredMessage)
    /\ Len(GetToolDefinitions(registries[1])) = 2

\* ---------------------------------------------------------------- C22

\* The sources recorded by the most recent search executed for the query
\* with frame f; none if no search was executed for it.
OwnRecorded(f) ==
    IF ToolExecutions(f) = {} THEN <<>>
    ELSE LET last == CHOOSE i \in ToolExecutions(f) :
                        \A j \in ToolExecutions(f) : j <= i
         IN Recorded(f.log[last].arg.retrieval)
HasReadSources(f) == f.sources # None

\* C22: with one registry per conversation in flight, the sources read for a
\* request are always those recorded by that request's own most recent
\* search, in every interleaving of two requests served at the same time.
\* (That two requests sharing one registry race on the slot is the reachable
\* state C22_Witness.)
C22_OwnRegistryReadsOwnSources ==
    (deployment.kind = "rag" /\ deployment.registries = "own") =>
        \A r \in DOMAIN rag :
            HasReadSources(rag[r]) => rag[r].sources[1] = OwnRecorded(rag[r])

\* The race on one shared registry: a request whose own search recorded
\* sources was handed the sources that the other request's search recorded.
C22_Witness ==
    /\ deployment.kind = "rag" /\ deployment.registries = "shared"
    /\ \E r, o \in DOMAIN rag :
        /\ r # o
        /\ HasReadSources(rag[r])
        /\ OwnRecorded(rag[r]) # <<>>
        /\ OwnRecorded(rag[o]) # <<>>
        /\ rag[r].sources[1] # OwnRecorded(rag[r])
        /\ rag[r].sources[1] = OwnRecorded(rag[o])
\* The race on one shared registry: a request whose own search recorded
\* sources was handed no sources, the other request having reset them.
C22_WitnessReset ==
    /\ deployment.kind = "rag" /\ deployment.registries = "shared"
    /\ \E r, o \in DOMAIN rag :
        /\ r # o
        /\ HasReadSources(rag[r])
        /\ OwnRecorded(rag[r]) # <<>>
        /\ rag[r].sources[1] = <<>>
        /\ \E i \in DOMAIN rag[o].log : rag[o].log[i].op = "reset_sources"
\* Each request on a registry of its own: both searched, both read their own
\* sources.
C22_WitnessOwn ==
    /\ deployment.kind = "rag" /\ deployment.registries = "own"
    /\ \A r \in DOMAIN rag :
        /\ HasReadSources(rag[r])
        /\ rag[r].sources[1] # <<>>
        /\ rag[r].sources[1] = OwnRecorded(rag[r])

\* ---------------------------------------------------------------- C27

\* The places in a query's log of the calls of one kind.
CallsOf(f, op) == {i \in DOMAIN f.log : f.log[i].op = op}
TheCall(f, op) == CHOOSE i \in CallsOf(f, op) : TRUE
Completed(f) == f.pc = "returned"

\* For a query that completed: generate_response returned once, then the
\* last sources were read once, then they were reset once.
ReadThenResetOnce(f) ==
    /\ Cardinality(CallsOf(f, "generate_response_returned")) = 1
    /\ Cardinality(CallsOf(f, "get_last_sources")) = 1
    /\ Cardinality(CallsOf(f, "reset_sources")) = 1
    /\ TheCall(f, "generate_response_returned") < TheCall(f, "get_last_sources")
    /\ TheCall(f, "get_last_sources") < TheCall(f, "reset_sources")
    /\ \A i \in ToolExecutions(f) : i < TheCall(f, "generate_response_returned")
    /\ f.sources = Some(f.log[TheCall(f, "get_last_sources")].returned)

\* C27: for every RAG query that completes, the registry's last sources are
\* read after the generator returned and then reset, each exactly once and in
\* that order; the sources returned with a query that searched are those its
\* latest search recorded; and a query that executes no search and follows
\* queries that completed returns an empty source list.
C27_SourcesReadThenReset ==
    (deployment.kind = "rag" /\ ~deployment.concurrent) =>
        \A r \in DOMAIN rag :
            Completed(rag[r]) =>
                /\ ReadThenResetOnce(rag[r])
                /\ ToolExecutions(rag[r]) # {}
                    => rag[r].sources[1] = OwnRecorded(rag[r])
                /\ (/\ ToolExecutions(rag[r]) = {}
                    /\ \A o \in 1..(r - 1) : Completed(rag[o]))
                    => rag[r].sources[1] = <<>>

\* A query whose two searches recorded sources completed with the sources of
\* the second, and the query after it, which searched nothing, completed with
\* none.
C27_Witness ==
    /\ deployment.kind = "rag" /\ ~deployment.concurrent
    /\ Completed(rag[1]) /\ Completed(rag[2])
    /\ Cardinality(ToolExecutions(rag[1])) = 2
    /\ rag[1].sources = Some(SourcesOf(<<RagLesson, McpLesson>>))
    /\ \E i \in ToolExecutions(rag[1]) :
            rag[1].log[i].arg.retrieval = Found(<<McpLesson>>)
    /\ ToolExecutions(rag[2]) = {}
    /\ rag[2].sources = Some(<<>>)

\* ---------------------------------------------------------------- C28

\* The exchanges that the completed queries among the first n requests had in
\* session sid, in the order of the requests.
RECURSIVE ExchangesOf(_, _)
ExchangesOf(sid, n) ==
    IF n = 0 THEN <<>>
    ELSE IF Completed(rag[n]) /\ rag[n].session_id = Some(sid)
    THEN Append(ExchangesOf(sid, n - 1), Exchange(rag[n].query, rag[n].answer[1]))
    ELSE ExchangesOf(sid, n - 1)

\* A query with a session id: the session's history was read once and passed
\* to the generator, and once the query has completed exactly one exchange,
\* the original query with the returned answer, was recorded for the session,
\* after the answer was produced.
WithSessionId(r) ==
    LET f == rag[r]
        sid == f.session_id[1]
    IN /\ Cardinality(CallsOf(f, "get_conversation_history")) = 1
       /\ f.log[TheCall(f, "get_conversation_history")].arg = sid
       /\ f.log[TheCall(f, "get_conversation_history")].returned =
            GetConversationHistory([NewSessions EXCEPT
                                    ![sid] = ExchangesOf(sid, r - 1)], sid)
       /\ f.log[TheCall(f, "generate_response")].arg.conversation_history =
            f.log[TheCall(f, "get_conversation_history")].returned
       /\ Cardinality(CallsOf(f, "add_exchange")) = IF Completed(f) THEN 1 ELSE 0
       /\ Completed(f) =>
            /\ f.log[TheCall(f, "add_exchange")].arg =
                    [session_id |-> sid, query |-> f.query, answer |-> f.answer[1]]
            /\ TheCall(f, "generate_response_returned") < TheCall(f, "add_exchange")

\* A query without session id: no history was read, none was passed to the
\* generator, and no exchange was recorded.
WithoutSessionId(r) ==
    LET f == rag[r]
    IN /\ CallsOf(f, "get_conversation_history") = {}
       /\ CallsOf(f, "add_exchange") = {}
       /\ f.log[TheCall(f, "generate_response")].arg.conversation_history = None

\* C28: a RAG query reads the conversation history and records the exchange
\* if and only if a session id is given: with one, that session's history is
\* passed to the generator and exactly one exchange (the original query, the
\* returned answer) is appended to that session after the answer is produced;
\* without one, history is neither read nor written and the generator gets no
\* history.
C28_HistoryIffSessionId ==
    (deployment.kind = "rag" /\ ~deployment.concurrent) =>
        /\ \A r \in DOMAIN rag :
            rag[r].pc # "idle" =>
                IF rag[r].session_id # None THEN WithSessionId(r)
                ELSE WithoutSessionId(r)
        /\ \A sid \in SessionIds : sessions[sid] = ExchangesOf(sid, Len(rag))

\* Two queries in one session completed: the second was given the first
\* exchange as history, and the session holds both exchanges.
C28_Witness ==
    /\ deployment.kind = "rag" /\ ~deployment.concurrent
    /\ Completed(rag[1]) /\ Completed(rag[2])
    /\ rag[1].session_id = Some("session_1")
    /\ rag[2].session_id = Some("session_1")
    /\ rag[2].log[TheCall(rag[2], "generate_response")].arg.conversation_history
        = Some("User: What is Python?\nAssistant: Answer to: What is Python?")
    /\ Len(sessions["session_1"]) = 2
\* A query without session id completed after one with a session id: the
\* session holds the first exchange only.
C28_WitnessWithout ==
    /\ deployment.kind = "rag" /\ ~deployment.concurrent
    /\ Completed(rag[1]) /\ Completed(rag[2])
    /\ rag[1].session_id = Some("session_1")
    /\ rag[2].session_id = None
    /\ Len(sessions["session_1"]) = 1

\* ---------------------------------------------------------------- C29

\* The request in hand carries no session id; carries none or an empty one.
CarriesNoSessionId == http.request[1].session_id = None
CarriesNoOrEmptySessionId ==
    http.request[1].session_id = None \/ http.request[1].session_id = Some("")
\* The endpoint has called, or is calling, create_session for the request.
CreatesSession == http.create_session_calls = 1
\* The session id passed to the RAG query and returned in the response, for a
\* request that is taken to carry no session id exactly when none holds.
SessionIdFollows(none) ==
    /\ CreatesSession <=> none
    /\ ~CreatesSession => (http.create_session_calls = 0 /\ http.created = None)
    /\ http.passed # None =>
        /\ http.passed[1].query = http.request[1].query
        /\ http.passed[1].session_id =
                IF none THEN http.created[1] ELSE http.request[1].session_id[1]
    /\ (http.response # None /\ http.response[1].status_code = 200) =>
            http.response[1].body[1].session_id = http.passed[1].session_id

\* C29 as stated: the query endpoint creates a new session if and only if the
\* request carries no session id, and the session id in the response is the
\* one passed to the RAG query: the supplied id when one was given, the newly
\* created id otherwise.
C29_NewSessionIffNoSessionId ==
    (deployment.kind = "endpoint" /\ http.request # None) =>
        SessionIdFollows(CarriesNoSessionId)

\* C29, amended: the query endpoint creates a new session if and only if the
\* request carries no session id or an empty one, and the session id in the
\* response is the one passed to the RAG query: the supplied id when a
\* non-empty one was given, the newly created id otherwise.
C29_NewSessionIffNoOrEmptySessionId ==
    (deployment.kind = "endpoint" /\ http.request # None) =>
        SessionIdFollows(CarriesNoOrEmptySessionId)

\* A request with a session id was answered with that id, after an earlier
\* request for which a session was created.
C29_Witness ==
    /\ deployment.kind = "endpoint"
    /\ http.served = 2 /\ http.sessions_created = 1
    /\ http.request[1].session_id = Some("test-session-456")
    /\ http.response # None
    /\ http.response[1].status_code = 200
    /\ http.response[1].body[1].session_id = "test-session-456"
\* A request with an empty session id was answered with a new session's id.
C29_WitnessEmpty ==
    /\ deployment.kind = "endpoint"
    /\ http.request = Some([query |-> "What is Python?", session_id |-> Some("")])
    /\ http.response # None
    /\ http.response[1].status_code = 200
    /\ http.response[1].body[1].session_id = "test-session-123"

\* ---------------------------------------------------------------- C30

\* C30: every failure raised while the query endpoint handles a request, from
\* session creation, from the RAG query or from building the response, is
\* answered with status 500 and the failure's message as detail, and with no
\* answer, sources or session id; a request is answered with 200 only if
\* nothing failed.
C30_FailuresBecome500 ==
    (deployment.kind = "endpoint" /\ http.pc = "responded") =>
        /\ http.response # None
        /\ http.failure # None =>
            /\ http.response[1].status_code = 500
            /\ http.response[1].detail = http.failure
            /\ http.response[1].body = None
        /\ http.failure = None =>
            /\ http.response[1].status_code = 200
            /\ http.response[1].body # None

\* The RAG query failed for a request for which a session had been created:
\* the response is 500 with the error's message and without the session id.
C30_Witness ==
    /\ deployment.kind = "endpoint"
    /\ http.pc = "responded"
    /\ http.created # None
    /\ http.failure = Some("RAG system error")
    /\ http.response[1].status_code = 500
    /\ http.response[1].detail = Some("RAG system error")
\* Session creation failed: the RAG query was not called.
C30_WitnessSessionCreation ==
    /\ deployment.kind = "endpoint"
    /\ http.pc = "responded"
    /\ http.failure = Some("Session creation failed")
    /\ http.passed = None
    /\ http.response[1].status_code = 500
    /\ http.response[1].detail = Some("Session creation failed")

\* ---------------------------------------------------------------- C31

\* The executions of round r, in the order they were made.
InRound(x, r) == x.round = r
ExecutionsOfRound(r) ==
    LET S == {j \in DOMAIN executions : InRound(executions[j], r)}
        f[n \in 0..Len(executions)] ==
            IF n = 0 THEN <<>>
            ELSE IF n \in S THEN Append(f[n - 1], executions[n]) ELSE f[n - 1]
    IN f[Len(executions)]
\* What round r added to the log: the messages of its continuation call that
\* the call before did not carry.
AddedInRound(r) ==
    SubSeq(requests[r + 1].messages, Len(requests[r].messages) + 1,
           Len(requests[r + 1].messages))
\* The ToolResult entries of a sequence of executions that returned.
ResultsOf(xs) ==
    [j \in DOMAIN xs |->
        [type |-> "tool_result", tool_use_id |-> xs[j].id,
         content |-> xs[j].output[1]]]
\* Response i signals tool_use, has content and holds no tool-call block.
SignalsToolUseWithoutCalls(i) ==
    /\ Answered(i)
    /\ answers[i].response.stop_reason = "tool_use"
    /\ ToolCalls(answers[i].response.content) = <<>>

\* C31: every round r whose continuation call was issued added to the log the
\* round's assistant message and then, exactly when at least one tool call was
\* executed in the round, one tool-result message holding all the round's
\* ToolResults. A tool_use response without tool-call blocks, received while
\* the budget lasts, executes nothing and appends no tool-result message; its
\* continuation call is issued all the same and the round is counted.
C31_OneResultMessagePerExecutingRound ==
    /\ \A r \in 1..(Len(requests) - 1) :
        LET xs == ExecutionsOfRound(r)
            assistant == AssistantMessage(answers[r].response)
        IN IF xs # <<>>
           THEN AddedInRound(r) =
                    <<assistant, ToolResultsMessage(ResultsOf(xs))>>
           ELSE AddedInRound(r) = <<assistant>>
    /\ \A i \in DOMAIN answers :
        (SignalsToolUseWithoutCalls(i) /\ i <= max_tool_rounds)
        => (/\ ExecutionsOfRound(i) = <<>>
            /\ Len(requests) >= i + 1
            /\ AddedInRound(i) = <<AssistantMessage(answers[i].response)>>
            /\ round_count >= i
            /\ batches >= i)

\* A run of two rounds: the first executed nothing and added its assistant
\* message only, the second executed two tools and added one message with both
\* results.
C31_Witness ==
    /\ Len(requests) = 3
    /\ SignalsToolUseWithoutCalls(1)
    /\ AddedInRound(1) = <<AssistantMessage(answers[1].response)>>
    /\ Len(ExecutionsOfRound(2)) = 2
    /\ Len(AddedInRound(2)) = 2
    /\ Len(AddedInRound(2)[2].content) = 2
    /\ round_count = 2

\* ---------------------------------------------------------------- C32

\* What an invocation of the registry for tool-call block b passes.
Invocation(b) == [id |-> b.id, name |-> b.name, input |-> b.input]
\* What execution x passed.
Passed(x) == [id |-> x.id, name |-> x.name, input |-> x.input]
\* The batch of round r ran to its end.
BatchOver(r) == r <= batches

\* C32: the executions of round r are invocations for the tool-call blocks of
\* the round's response, one for each block in turn, each with the block's
\* name and arguments: for all of them once the batch is over, for the first
\* ones while it runs or after a tool raised. Nothing else is executed, so no
\* text block is, and no tool-call block is executed twice in a run.
C32_OneInvocationPerToolCall ==
    /\ \A j \in DOMAIN executions : executions[j].round \in 1..round_count
    /\ \A r \in 1..round_count :
        LET xs == ExecutionsOfRound(r)
            issued == ToolCalls(answers[r].response.content)
        IN /\ Len(xs) <= Len(issued)
           /\ \A j \in DOMAIN xs : Passed(xs[j]) = Invocation(issued[j])
           /\ BatchOver(r) => Len(xs) = Len(issued)
    /\ \A j, k \in DOMAIN executions :
        j # k => executions[j].id # executions[k].id

\* A run that ended after two rounds: the first response held a text block and
\* a tool call, the second two tool calls; three executions were made.
C32_Witness ==
    /\ pc = "returned"
    /\ Len(answers) = 3
    /\ answers[1].response.content[1].type = "text"
    /\ Len(ToolCalls(answers[1].response.content)) = 1
    /\ Len(ToolCalls(answers[2].response.content)) = 2
    /\ Len(executions) = 3
    /\ batches = 2

\* ---------------------------------------------------------------- C33

\* The ids of the ToolResults that the completion calls of the run carried.
ResultIdsIn(msgs) ==
    UNION {{msgs[k].content[n].tool_use_id : n \in DOMAIN msgs[k].content} :
           k \in {m \in 2..Len(msgs) : IsToolResults(msgs, m)}}
SentResultIds == UNION {ResultIdsIn(requests[i].messages) : i \in DOMAIN requests}
\* Execution j raised.
ToolRaised(j) == executions[j].raised # None

\* C33: when the tool call at position j of a round raises, it is the last
\* execution of the run: the tool calls after it in the round's response are
\* not executed, the results of the round's earlier calls are in no completion
\* call, no text is returned, and the run has ended with the error, its last
\* completion call being the one that the round's response answered.
C33_RaisingToolEndsRound ==
    \A j \in DOMAIN executions :
        ToolRaised(j) =>
            LET r == executions[j].round
                xs == ExecutionsOfRound(r)
                issued == ToolCalls(answers[r].response.content)
            IN /\ j = Len(executions)
               /\ Passed(executions[j]) = Invocation(issued[Len(xs)])
               /\ \A n \in (Len(xs) + 1)..Len(issued) :
                    \A k \in DOMAIN executions : executions[k].id # issued[n].id
               /\ \A n \in DOMAIN xs : xs[n].id \notin SentResultIds
               /\ pc = "raised"
               /\ result = None
               /\ Len(requests) = r
               /\ batches = r - 1
               /\ ~ENABLED Next

\* The second tool call of the second round raised, after the first returned
\* its result and after a first round whose results were sent.
C33_Witness ==
    /\ pc = "raised"
    /\ round_count = 2
    /\ Len(ExecutionsOfRound(2)) = 2
    /\ ExecutionsOfRound(2)[1].raised = None
    /\ ToolRaised(Len(executions))
    /\ SentResultIds # {}

\* The first of two tool calls of a round raised: the second was not executed.
C33_WitnessFirstOfTwo ==
    /\ pc = "raised"
    /\ Len(executions) = 1
    /\ ToolRaised(1)
    /\ Len(ToolCalls(answers[1].response.content)) = 2

\* ---------------------------------------------------------------- C34

\* The run ended with an error that contains the text msg.
PropagatesText(msg) == pc = "raised" /\ error # None /\ Contains(error[1], msg[1])
\* The last answer is a response without content.
LastAnswerEmpty ==
    /\ answers # <<>>
    /\ IsResponse(answers[Len(answers)])
    /\ ContentEmpty(LastResponse)
\* The last answer is a response that begins with a tool-call block.
LastAnswerBeginsWithToolCall ==
    /\ answers # <<>>
    /\ IsResponse(answers[Len(answers)])
    /\ ~ContentEmpty(LastResponse)
    /\ IsToolUse(LastResponse.content[1])

\* C34: when a completion call raises, the initial one or that of any round,
\* or a tool raises in any round, the error that generate_response ends with
\* contains the message of what raised. Every error the run ends with is one
\* of these, or it is the generator's own report of a response without
\* content, or the error of reading the text of a tool-call block.
C34_ErrorsCarryTheirCause ==
    /\ \A i \in DOMAIN answers :
        answers[i].raised # None => PropagatesText(answers[i].raised)
    /\ \A j \in DOMAIN executions :
        ToolRaised(j) => PropagatesText(executions[j].raised)
    /\ pc = "raised" =>
        \/ answers # <<>> /\ answers[Len(answers)].raised # None
        \/ executions # <<>> /\ ToolRaised(Len(executions))
        \/ LastAnswerEmpty /\ StartsWith(error[1], EmptyContentMessage)
        \/ LastAnswerBeginsWithToolCall /\ error = Some(AttributeErrorMessage)

\* The initial completion call raised.
C34_Witness ==
    /\ Len(answers) = 1
    /\ answers[1].raised # None
    /\ error = Some("Anthropic API error: API rate limit exceeded")

\* The continuation call of round 2 raised.
C34_WitnessRound ==
    /\ Len(answers) = 3
    /\ answers[3].raised = Some("API rate limit exceeded")
    /\ error = Some("Anthropic API error in round 2: API rate limit exceeded")

\* A tool raised in round 2.
C34_WitnessTool ==
    /\ round_count = 2
    /\ executions # <<>>
    /\ executions[Len(executions)].raised = Some("Vector store connection failed")
    /\ error = Some("Tool execution failed in round 2: Vector store connection failed")

\* ---------------------------------------------------------------- C35

\* The last message of the continuation call of round r.
LastMessageOfRound(r) ==
    requests[r + 1].messages[Len(requests[r + 1].messages)]
\* Execution x returned in a round whose batch is still running, or was cut
\* short by a tool that raised.
BatchUnderWayOrFailed(x) ==
    /\ x.round = round_count
    /\ \/ pc = "execute_tool"
       \/ pc = "raised" /\ ToolRaised(Len(executions))
                        /\ executions[Len(executions)].round = x.round

\* C35: in every state of a run the batches that ran to their end are as many
\* as the continuation calls made, the call of round r being made in the step
\* that ends the batch of round r; no execution of such a batch raised, and
\* the call's log ends with the tool-result message holding the batch's
\* results. A result that no completion call carries belongs to the batch
\* under way, or to a batch that a raising tool ended with an error.
C35_BatchesEqualContinuationCalls ==
    /\ pc # "init" => batches = Len(requests) - 1
    /\ batches <= round_count
    /\ \A r \in 1..batches :
        LET xs == ExecutionsOfRound(r)
        IN /\ \A n \in DOMAIN xs : xs[n].raised = None
           /\ xs # <<>> =>
                LastMessageOfRound(r) = ToolResultsMessage(ResultsOf(xs))
    /\ \A j \in DOMAIN executions :
        (executions[j].raised = None /\ ~BatchOver(executions[j].round))
        => BatchUnderWayOrFailed(executions[j])

\* The batch of round 2 has just ended with two results and the continuation
\* call of round 2, the third call of the run, awaits its answer.
C35_Witness ==
    /\ pc = "call_round"
    /\ batches = 2
    /\ Len(requests) = 3
    /\ Len(answers) = 2
    /\ Len(ExecutionsOfRound(1)) >= 1
    /\ Len(LastMessageOfRound(2).content) = 2

\* ---------------------------------------------------------------- C36

\* Answer i is a response that carries a tool-call block and whose stop
\* signal is not tool_use.
CarriesCallsWithoutSignal(i) ==
    /\ Answered(i)
    /\ answers[i].response.stop_reason # "tool_use"
    /\ ToolUseIds(answers[i].response.content) # {}
\* No tool-call block of answer i was executed.
NeverExecuted(i) ==
    \A j \in DOMAIN executions :
        executions[j].id \notin ToolUseIds(answers[i].response.content)

\* C36: a response that carries tool-call blocks and whose stop signal is not
\* tool_use, on the initial call or on a continuation call, is the last of
\* the run: none of its tool calls is executed, and generate_response returns
\* the text of its first block.
C36_UnsignalledCallsEndInDone ==
    \A i \in DOMAIN answers :
        CarriesCallsWithoutSignal(i) =>
            /\ NeverExecuted(i)
            /\ i = Len(answers)
            /\ Len(requests) = i
            /\ pc = "returned"
            /\ answers[i].response.content[1].type = "text"
            /\ result = Some(answers[i].response.content[1].text)

\* What holds of the code: the tool calls are not executed and the run ends
\* there; the text is returned when the first block is a text block, and
\* reading .text raises when the first block is the tool call.
UnsignalledCallsOutcome ==
    \A i \in DOMAIN answers :
        CarriesCallsWithoutSignal(i) =>
            /\ NeverExecuted(i)
            /\ i = Len(answers)
            /\ Len(requests) = i
            /\ IF answers[i].response.content[1].type = "text"
               THEN /\ pc = "returned"
                    /\ result = Some(answers[i].response.content[1].text)
               ELSE pc = "raised" /\ error = Some(AttributeErrorMessage)

\* A continuation response with stop signal end_turn whose first block is a
\* tool call: the run raised.
UnsignalledCallFirst ==
    /\ Len(answers) = 2
    /\ CarriesCallsWithoutSignal(2)
    /\ IsToolUse(answers[2].response.content[1])
    /\ pc = "raised"

\* ---------------------------------------------------------------- C37

\* Completion call i carries tool_choice; it carries a non-empty tools array.
CarriesToolChoice(i) == requests[i].tool_choice # None
CarriesTools(i) == requests[i].tools # None /\ requests[i].tools[1] # <<>>

\* C37: every completion call of a run that carries tool_choice carries a
\* non-empty tools array with it, and a continuation call of a run in which
\* no tool definitions were offered carries no tools array and no tool_choice.
C37_ToolChoiceOnlyWithTools ==
    \A i \in DOMAIN requests :
        /\ CarriesToolChoice(i) => CarriesTools(i)
        /\ (i >= 2 /\ ~TruthyList(tools))
              => (requests[i].tools = None /\ requests[i].tool_choice = None)

\* What holds of the code: the initial call carries tool_choice together with
\* the offered tools or neither; every continuation call carries tool_choice
\* auto and a tools array, which is the empty array when none were offered.
ToolChoiceOutcome ==
    \A i \in DOMAIN requests :
        IF i = 1
        THEN CarriesToolChoice(i) <=> CarriesTools(i)
        ELSE /\ requests[i].tool_choice = Some([type |-> "auto"])
             /\ requests[i].tools =
                    Some(IF TruthyList(tools) THEN tools[1] ELSE <<>>)

\* A continuation call made in a run without tool definitions: it carries the
\* empty tools array and tool_choice.
ToolChoiceWithoutTools ==
    /\ tools = None
    /\ Len(requests) = 2
    /\ requests[2].tools = Some(<<>>)
    /\ CarriesToolChoice(2)

\* ---------------------------------------------------------------- C38

\* A generator built with max_tool_rounds = 0 was called with a tool manager
\* and its initial response, with content, signals tool_use.
ZeroBudgetToolUse ==
    /\ max_tool_rounds = 0
    /\ tool_manager # None
    /\ Len(answers) >= 1
    /\ Answered(1)
    /\ answers[1].response.stop_reason = "tool_use"

\* C38: with max_tool_rounds = 0 and a tool manager, a tool_use initial
\* response is followed by no tool execution and no continuation call:
\* generate_response returns the text of the first block of that response
\* after its one completion call.
C38_ZeroBudgetReturnsInitialText ==
    ZeroBudgetToolUse =>
        /\ executions = <<>>
        /\ batches = 0
        /\ Len(requests) = 1
        /\ pc = "returned"
        /\ answers[1].response.content[1].type = "text"
        /\ result = Some(answers[1].response.content[1].text)

\* What holds of the code: nothing is executed and no continuation call is
\* made; the text is returned when the first block is a text block, and
\* reading .text raises when the first block is a tool call.
ZeroBudgetOutcome ==
    ZeroBudgetToolUse =>
        /\ executions = <<>>
        /\ batches = 0
        /\ round_count = 0
        /\ Len(requests) = 1
        /\ IF answers[1].response.content[1].type = "text"
           THEN /\ pc = "returned"
                /\ result = Some(answers[1].response.content[1].text)
           ELSE pc = "raised" /\ error = Some(AttributeErrorMessage)

\* With max_tool_rounds = 0 the initial response held a tool call only.
ZeroBudgetToolCallFirst ==
    /\ ZeroBudgetToolUse
    /\ Len(answers[1].response.content) = 1
    /\ IsToolUse(answers[1].response.content[1])
    /\ pc = "raised"

\* ---------------------------------------------------------------- C39

\* The tool-call blocks of content before position n, in their order.
ToolCallsBefore(content, n) == ToolCalls(SubSeq(content, 1, n - 1))
\* The rounds of the executions never decrease along the run.
RoundsInOrder ==
    \A j, k \in DOMAIN executions :
        j < k => executions[j].round <= executions[k].round

\* C39: the tools of a round are executed one at a time in the order of the
\* tool-call blocks of the round's response: while a tool is executed, the
\* round's executions so far are those of the tool-call blocks before it, in
\* their order, and no other execution is under way. The ToolResults of the
\* round's tool-result message are in that order too, each with the id of
\* its block and the output of its execution.
C39_ExecutedAndReportedInBlockOrder ==
    /\ RoundsInOrder
    /\ pc = "execute_tool" =>
        LET content == current_response[1].content
            xs == ExecutionsOfRound(round_count)
            before == ToolCallsBefore(content, block)
        IN /\ IsToolUse(content[block])
           /\ Len(xs) = Len(before)
           /\ \A j \in DOMAIN xs : xs[j].id = before[j].id
    /\ \A r \in 1..batches :
        LET issued == ToolCalls(answers[r].response.content)
            xs == ExecutionsOfRound(r)
        IN issued # <<>> =>
            LET entries == LastMessageOfRound(r).content
            IN /\ Len(entries) = Len(issued)
               /\ Len(xs) = Len(issued)
               /\ \A j \in DOMAIN entries :
                    /\ entries[j].tool_use_id = issued[j].id
                    /\ xs[j].id = issued[j].id
                    /\ entries[j].content = xs[j].output[1]

\* The second round held two tool calls: both were executed, the first block's
\* first, and the round's tool-result message lists them in that order.
C39_Witness ==
    /\ batches = 2
    /\ Len(ExecutionsOfRound(2)) = 2
    /\ ExecutionsOfRound(2)[1].id = "toolu_2_1"
    /\ ExecutionsOfRound(2)[2].id = "toolu_2_2"
    /\ LastMessageOfRound(2).content[1].tool_use_id = "toolu_2_1"
    /\ LastMessageOfRound(2).content[2].tool_use_id = "toolu_2_2"

\* ---------------------------------------------------------------- C40

\* What the environment gave a call: the answers of the endpoint in order,
\* and whether each tool execution raised or what it returned, in order.
Outcomes(xs) ==
    [j \in DOMAIN xs |-> [raised |-> xs[j].raised, output |-> xs[j].output]]
\* The two calls have the same arguments and were given the same answers and
\* the same tool outcomes so far.
SameInputsAndAnswers ==
    /\ pc # "init" /\ peer.pc # "init"
    /\ peer.query = query
    /\ peer.conversation_history = conversation_history
    /\ peer.tools = tools
    /\ peer.tool_manager = tool_manager
    /\ peer.answers = answers
    /\ Outcomes(peer.executions) = Outcomes(executions)

C40_WitnessError ==
    /\ SameInputsAndAnswers
    /\ pc = "raised"
    /\ executions # <<>>
    /\ executions[Len(executions)].raised # None
    /\ peer.error = error

====
